---- MODULE Spec2Model ----
(***************************************************************************)
(* A model of astro-shield's core: the markup scanner/rewriter in static   *)
(* and dynamic mode (core.mts), the CSP header patcher (headers.mts) and   *)
(* the Netlify headers-config merge (netlify.mts).                         *)
(*                                                                         *)
(* Text is modelled structurally.  A document is the sequence of the       *)
(* elements the three element patterns match in it, in document order; an  *)
(* element is its tag, its attribute list (name, value) in written order   *)
(* and its inline content.  Two elements are the same record exactly when  *)
(* they are the same text, so String.replace(match[0], x), which rewrites  *)
(* the FIRST occurrence of the matched text, is modelled as such.  A       *)
(* removed element leaves the empty text "" in its slot, so slot i of the  *)
(* output always corresponds to slot i of the input.  A source reference   *)
(* is a sequence of tokens ("https:", "//", host, "/", name ...).          *)
(***************************************************************************)
EXTENDS Integers, Sequences, FiniteSets, TLC

VARIABLES
    mode,           \* "dynamic" | "static" | "csp" | "netlify" | "parse" | "build": which part of the program runs
    pc,             \* position of the current unit of work
    globalHashes,   \* the middleware's global table: [scripts, styles] locator -> hash
    sri,            \* SRIOptions: allowInlineScripts / allowInlineStyles
    content,        \* the document handed to the scanner
    result,         \* what the scanner returned (output, page hashes) and logged
    h,              \* HashesCollection of the static build
    page,           \* relativeFilepath of the page being built
    pagesDone,      \* number of pages processed in this build
    scanned,        \* number of elements scanned so far in this build
    cspOpts,        \* contentSecurityPolicy option object (mutable, shared by all requests)
    plainHeaders,   \* existing content-security-policy header of the response (or NoHeader)
    existing,       \* the (name, value) pairs the existing header was written from
    pageHashes,     \* the page hashes handed to patchHeaders
    patched,        \* outcome of patchHeaders
    requests,       \* number of responses patched so far
    base,           \* Netlify base config
    patch,          \* Netlify patch config
    merged,         \* result of mergeNetlifyHeadersConfig
    cfg,            \* a Netlify config handed to serializeNetlifyHeadersConfig
    text,           \* the text handed to parseNetlifyHeadersConfig, as its lines
    ctx,            \* ParseContext of the parser, with the line it is at
    parsed,         \* what parseNetlifyHeadersConfig returned
    resourceHashes, \* perPageSriHashes handed to buildNetlifyHeadersConfig, in insertion order
    vercelBase,     \* the Vercel config read from config.json
    vercelPatch,    \* what buildVercelConfig returned
    vercelMerged,   \* what mergeVercelConfig returned
    buildCall,      \* the arguments of the header builder as they were on entry
    startupOpts,    \* the security header options as given at startup
    collected,      \* the HashesCollection handed to generateSRIHashesModule, in insertion order
    hashesModule,   \* the persisted hashes module (the file sri.hashesModule)
    imported,       \* the process's module cache entry for the hashes module
    persistLog      \* what the calls of generateSRIHashesModule did in this process

vars == <<mode, pc, globalHashes, sri, content, result, h, page, pagesDone, scanned,
          cspOpts, plainHeaders, existing, pageHashes, patched, requests,
          base, patch, merged, cfg, text, ctx, parsed, resourceHashes,
          vercelBase, vercelPatch, vercelMerged, buildCall, startupOpts,
          collected, hashesModule, imported, persistLog>>

scanVars == <<globalHashes, sri, content, result, h, page, pagesDone, scanned>>
cspVars == <<cspOpts, plainHeaders, existing, pageHashes, patched, requests>>
parseVars == <<cfg, text, ctx, parsed>>
vercelVars == <<vercelBase, vercelPatch, vercelMerged, buildCall, startupOpts>>
moduleVars == <<collected, hashesModule, imported, persistLog>>
netlifyVars == <<base, patch, merged, cfg, text, ctx, parsed, resourceHashes,
                 vercelVars, moduleVars>>

(***************************************************************************)
(* Bounds                                                                  *)
(***************************************************************************)
MaxElems == 2
MaxPages == 2
MaxRequests == 2
MaxBaseLines == 4
MaxPatchLines == 3
MaxConfigLines == 4
MaxTextLines == 4
MaxBuildPages == 3
MaxCollected == 3
MaxProcesses == 2

(***************************************************************************)
(* Generic helpers                                                         *)
(***************************************************************************)
Min(S) == CHOOSE x \in S : \A y \in S : x <= y

Range(s) == {s[i] : i \in 1..Len(s)}

EmptyMap == [x \in {} |-> ""]

\* a CSPDirectives object without directives
NoDirectives == [x \in {} |-> <<>>]

\* Map.set(k, v) / obj[k] = v
MapSet(m, k, v) == [x \in DOMAIN m \cup {k} |-> IF x = k THEN v ELSE m[x]]

\* Map.get(k): "" stands for undefined (every stored hash is a non-empty string)
MapGet(m, k) == IF k \in DOMAIN m THEN m[k] ELSE ""

(***************************************************************************)
(* Hashes                                                                  *)
(***************************************************************************)
\* "sha256-" + base64(SHA-256(data)); distinct data have distinct hashes
generateSRIHash(data) == "sha256-" \o data

\* the strings that integrityRegex accepts as an integrity value
ValidHashLiterals ==
    {generateSRIHash(d) : d \in {"", "c", "ra", "rx", "la", "nf", "other", "$$"}}

(***************************************************************************)
(* Source references                                                       *)
(***************************************************************************)
XoAllowed == <<"https:", "//", "cdn.example", "/", "a.js">>
XoEvil == <<"https:", "//", "evil.example", "/", "x.js">>
ProtoRelEvil == <<"//", "evil.example", "/", "x.js">>
\* a URL whose server answers 404 with an error page
XoGone == <<"https:", "//", "cdn.example", "/", "gone.js">>
\* a URL whose host cannot be reached
XoDown == <<"https:", "//", "down.example", "/", "d.js">>
LocalOk == <<"/", "a.js">>
LocalMissing == <<"/", "m.js">>
DevVite == <<"/", "@vite/", "client">>
DevFs == <<"/", "@fs/", "x.js">>
DevAstro == <<"/", "p.astro", "?astro&type=", "script">>
RelativeSrc == <<"rel.js">>
DataUrl == <<"data:", "text/javascript,", "x">>

Sources ==
    {XoAllowed, XoEvil, ProtoRelEvil, XoGone, XoDown, LocalOk, LocalMissing, DevVite, DevFs,
     DevAstro, RelativeSrc, DataUrl}

\* /^(https?:)?\/\/[^/]/i
urlLikeRegex(src) ==
    LET r == IF Len(src) > 0 /\ src[1] \in {"http:", "https:"} THEN Tail(src) ELSE src
    IN  Len(r) >= 2 /\ r[1] = "//" /\ r[2] \notin {"/", "//"}

\* src.startsWith('/')
startsWithSlash(src) == Len(src) > 0 /\ src[1] \in {"/", "//"}

\* variant: the /@fs/ prefix is forgotten
isDevResource_noFs(src) ==
    \/ Len(src) >= 2 /\ src[1] = "/" /\ src[2] \in {"@vite/"}
    \/ \E k \in 1..Len(src) : src[k] = "?astro&type="

\* src.startsWith('/@vite/') || src.startsWith('/@fs/') || src.indexOf('?astro&type=') >= 0
isDevResource(src) ==
    \/ Len(src) >= 2 /\ src[1] = "/" /\ src[2] \in {"@vite/", "@fs/"}
    \/ \E k \in 1..Len(src) : src[k] = "?astro&type="

(***************************************************************************)
(* Elements                                                                *)
(***************************************************************************)
Attr(n, v) == [n |-> n, v |-> v]

Elem(tag, attrs, c) == [tag |-> tag, attrs |-> attrs, content |-> c]

\* the empty text left where an element was removed
Removed == Elem("", <<>>, "")

Undefined == "undefined"

\* srcRegex.exec(attrs): the first attribute with one of the processor's names
srcMatch(attrs, names) ==
    LET I == {k \in 1..Len(attrs) : attrs[k].n \in names}
    IN  IF I = {} THEN [matched |-> FALSE, src |-> <<>>]
        ELSE [matched |-> TRUE, src |-> attrs[Min(I)].v]

\* integrityRegex on one attribute
integrityRegex(a) == a.n = "integrity" /\ Len(a.v) = 1 /\ a.v[1] \in ValidHashLiterals

\* variant: only the first attribute is tested against integrityRegex
extractIntegrityHash_firstAttrOnly(attrs) ==
    IF Len(attrs) > 0 /\ integrityRegex(attrs[1]) THEN attrs[1].v[1] ELSE Undefined

extractIntegrityHash(attrs) ==
    LET I == {k \in 1..Len(attrs) : integrityRegex(attrs[k])}
    IN  IF I = {} THEN Undefined ELSE attrs[Min(I)].v[1]

relStylesheetRegex(attrs) ==
    \E k \in 1..Len(attrs) : attrs[k] = Attr("rel", <<"stylesheet">>)

anonymousCrossOriginRegex(attrs) ==
    \E k \in 1..Len(attrs) : attrs[k] = Attr("crossorigin", <<"anonymous">>)

crossoriginAttr(setCrossorigin) ==
    IF setCrossorigin THEN <<Attr("crossorigin", <<"anonymous">>)>> ELSE <<>>

scriptReplacer(hash, attrs, setCrossorigin, c) ==
    Elem("script", attrs \o <<Attr("integrity", <<hash>>)>> \o crossoriginAttr(setCrossorigin), c)

styleReplacer(hash, attrs, setCrossorigin, c) ==
    Elem("style", attrs \o <<Attr("integrity", <<hash>>)>> \o crossoriginAttr(setCrossorigin), c)

linkStyleReplacer(hash, attrs, setCrossorigin, c) ==
    Elem("link", attrs \o <<Attr("integrity", <<hash>>)>> \o crossoriginAttr(setCrossorigin), "")

regexProcessors ==
    << [t |-> "Script", t2 |-> "scripts", tag |-> "script", srcNames |-> {"src"},
        hasContent |-> TRUE, attrsRegex |-> FALSE],
       [t |-> "Style", t2 |-> "styles", tag |-> "style", srcNames |-> {"href", "src"},
        hasContent |-> TRUE, attrsRegex |-> FALSE],
       [t |-> "Style", t2 |-> "styles", tag |-> "link", srcNames |-> {"href"},
        hasContent |-> FALSE, attrsRegex |-> TRUE] >>

replacer(P, hash, attrs, setCrossorigin, c) ==
    CASE P.tag = "script" -> scriptReplacer(hash, attrs, setCrossorigin, c)
      [] P.tag = "style" -> styleReplacer(hash, attrs, setCrossorigin, c)
      [] OTHER -> linkStyleReplacer(hash, attrs, setCrossorigin, c)

\* What String.prototype.replace makes of the content part of a replacement
\* string: the string is scanned for replacement patterns, and `$$` inserts
\* one `$`.  The contents of the model hold no other pattern.
GetSubstitution(c) == IF c = "$$" THEN "$" ELSE c

\* updatedContent.replace(match[0], x): only the first occurrence of the text
ReplaceFirst(doc, old, new) ==
    LET I == {k \in 1..Len(doc) : doc[k] = old}
    IN  IF I = {} THEN doc ELSE [doc EXCEPT ![Min(I)] = new]

(***************************************************************************)
(* The documents the scanner is run on                                     *)
(***************************************************************************)
SrcAttrName(tag) == IF tag = "script" THEN "src" ELSE "href"

RelAttrs(tag) == IF tag = "link" THEN <<Attr("rel", <<"stylesheet">>)>> ELSE <<>>

IntegrityAttrs(v) == IF v = "" THEN <<>> ELSE <<Attr("integrity", <<v>>)>>

SourcedElems ==
    {Elem("script", <<Attr("src", src)>>, "") : src \in Sources}
    \cup
    {Elem("link", RelAttrs("link") \o <<Attr("href", src)>>, "") :
        src \in {XoAllowed, XoEvil, LocalOk, LocalMissing}}
    \cup
    {Elem("script", <<Attr("src", src)>> \o IntegrityAttrs(g), "") :
        src \in {XoAllowed, XoEvil, LocalOk}, g \in {"sha256-ra", "sha256-other"}}
    \cup
    {Elem("link", RelAttrs("link") \o <<Attr("href", XoAllowed)>> \o IntegrityAttrs("sha256-other"), ""),
     Elem("link", RelAttrs("link") \o <<Attr("href", XoEvil)>> \o IntegrityAttrs("sha256-ra"), ""),
     Elem("style", <<Attr("href", XoEvil)>>, ""),
     Elem("script", <<Attr("src", XoAllowed), Attr("crossorigin", <<"anonymous">>)>>, "")}

SourcedWithContentElems ==
    {Elem("script", <<Attr("src", src)>> \o IntegrityAttrs(g), "c") :
        src \in {XoAllowed, XoEvil, LocalMissing}, g \in {"", "sha256-ra"}}
    \cup
    {Elem("style", <<Attr("href", src)>>, "c") : src \in {XoAllowed, XoEvil}}

InlineElems ==
    {Elem("script", IntegrityAttrs(g), "c") : g \in {"", "sha256-c", "sha256-other", "md5-c"}}
    \cup
    {Elem("style", IntegrityAttrs(g), "c") : g \in {"", "sha256-c"}}
    \cup
    {Elem("script", <<>>, ""), Elem("script", IntegrityAttrs("sha256-"), ""),
     Elem("style", <<>>, ""), Elem("script", <<>>, "$$")}

OtherElems ==
    {Elem("link", <<Attr("rel", <<"icon">>), Attr("href", XoEvil)>>, "")}

Elements == SourcedElems \cup SourcedWithContentElems \cup InlineElems \cup OtherElems

(***************************************************************************)
(* Scanner bookkeeping shared by both modes.  A scan state s holds the     *)
(* output being rewritten, what was logged, and (contrib) which input slot *)
(* added which hash to the page's hash set.                                *)
(***************************************************************************)
warn(s, i, msg) == [s EXCEPT !.warnings = Append(@, [idx |-> i, msg |-> msg])]

\* updatedContent = updatedContent.replace(match[0], '')
removeElem(s, el) ==
    [s EXCEPT !.updatedContent = ReplaceFirst(@, el, Removed)]

\* updatedContent = updatedContent.replace(match[0], replacer(...))
rewriteElem(s, el, P, sriHash, setCrossorigin) ==
    IF sriHash # ""
    THEN LET replaceValue == replacer(P, sriHash, el.attrs,
                                      setCrossorigin /\ ~anonymousCrossOriginRegex(el.attrs),
                                      el.content)
         IN  [s EXCEPT !.updatedContent =
                 ReplaceFirst(@, el,
                     [replaceValue EXCEPT !.content = GetSubstitution(@)])]
    ELSE s

(***************************************************************************)
(* updateDynamicPageSriHashes                                              *)
(***************************************************************************)
dynAddPageHash(s, i, t2, hash) ==
    [s EXCEPT !.pageHashes[t2] = @ \cup {hash},
              !.contrib = @ \cup {<<i, t2, hash>>}]

\* variant: the middleware applies the static build's reading of the policy
dynInlineAllowed_asStatic(P, opts) ==
    \/ opts.allowInlineScripts \in {"all", "static"} /\ P.t = "Script"
    \/ opts.allowInlineStyles \in {"all", "static"} /\ P.t = "Style"

\* (sri?.allowInlineScripts ?? 'all') === 'all' && t === 'Script' || ... 'Style'
dynInlineAllowed(P, opts) ==
    \/ opts.allowInlineScripts = "all" /\ P.t = "Script"
    \/ opts.allowInlineStyles = "all" /\ P.t = "Style"

\* the part of the loop body after the `if (attrs)` block
dynInlineAndRewrite(s, i, el, P, opts, sriHash, setCrossorigin) ==
    IF P.hasContent /\ sriHash = ""
    THEN IF dynInlineAllowed(P, opts)
         THEN LET hash == generateSRIHash(el.content)
              IN  rewriteElem(dynAddPageHash(s, i, P.t2, hash), el, P, hash, setCrossorigin)
         ELSE removeElem(warn(s, i, "inline-disabled"), el)
    ELSE rewriteElem(s, el, P, sriHash, setCrossorigin)

\* variant: an integrity value on a resource the table does not know is trusted
dynGivenIntegrity_trustUnknown(s, i, el, P, opts, src, givenSriHash) ==
    IF src # <<>>
    THEN LET globalHash == MapGet(s.globalHashes[P.t2], src)
         IN  IF globalHash # "" /\ globalHash # givenSriHash
             THEN removeElem(warn(s, i, "mismatch"), el)
             ELSE dynAddPageHash(s, i, P.t2, givenSriHash)
    ELSE IF el.content # "" /\ ~dynInlineAllowed(P, opts)
         THEN removeElem(warn(s, i, "inline-disabled"), el)
         ELSE IF el.content # "" THEN dynAddPageHash(s, i, P.t2, givenSriHash) ELSE s

\* variant: a mismatch is a hard failure
dynGivenIntegrity_throwOnMismatch(s, i, el, P, opts, src, givenSriHash) ==
    IF src # <<>>
    THEN LET globalHash == MapGet(s.globalHashes[P.t2], src)
         IN  IF globalHash # ""
             THEN IF globalHash # givenSriHash
                  THEN [s EXCEPT !.threw = TRUE]
                  ELSE dynAddPageHash(s, i, P.t2, givenSriHash)
             ELSE removeElem(warn(s, i, "not-allowed"), el)
    ELSE IF el.content # "" /\ ~dynInlineAllowed(P, opts)
         THEN removeElem(warn(s, i, "inline-disabled"), el)
         ELSE IF el.content # "" THEN dynAddPageHash(s, i, P.t2, givenSriHash) ELSE s

\* the branch taken when the element carries a valid integrity attribute
dynGivenIntegrity(s, i, el, P, opts, src, givenSriHash) ==
    IF givenSriHash # ""
    THEN IF src # <<>>
         THEN LET globalHash == MapGet(s.globalHashes[P.t2], src)
              IN  IF globalHash # ""
                  THEN IF globalHash # givenSriHash
                       THEN removeElem(warn(s, i, "mismatch"), el)
                       ELSE dynAddPageHash(s, i, P.t2, givenSriHash)
                  ELSE removeElem(warn(s, i, "not-allowed"), el)
         ELSE IF el.content # ""
              THEN IF \/ P.t2 = "scripts" /\ opts.allowInlineScripts = "all"
                      \/ P.t2 = "styles" /\ opts.allowInlineStyles = "all"
                   THEN dynAddPageHash(s, i, P.t2, givenSriHash)
                   ELSE removeElem(warn(s, i, "inline-disabled"), el)
              ELSE s
    ELSE removeElem(warn(s, i, "empty-integrity"), el)

\* variant: a local resource the table does not know is learnt on the fly
dynSourced_learnOnTheFly(s, i, el, P, opts, src) ==
    IF urlLikeRegex(src)
    THEN LET sriHash == MapGet(s.globalHashes[P.t2], src)
         IN  IF sriHash # ""
             THEN dynInlineAndRewrite(dynAddPageHash(s, i, P.t2, sriHash),
                                      i, el, P, opts, sriHash, TRUE)
             ELSE removeElem(warn(s, i, "not-allowed"), el)
    ELSE IF startsWithSlash(src)
    THEN LET sriHash == MapGet(s.globalHashes[P.t2], src)
         IN  IF sriHash # ""
             THEN dynInlineAndRewrite(dynAddPageHash(s, i, P.t2, sriHash),
                                      i, el, P, opts, sriHash, FALSE)
             ELSE [warn(s, i, "no-local-hash") EXCEPT
                      !.globalHashes[P.t2] = MapSet(@, src, generateSRIHash("la"))]
    ELSE warn(s, i, "unknown-protocol")

\* the branch taken for a sourced element without a valid integrity attribute
dynSourced(s, i, el, P, opts, src) ==
    IF urlLikeRegex(src)
    THEN LET sriHash == MapGet(s.globalHashes[P.t2], src)
         IN  IF sriHash # ""
             THEN dynInlineAndRewrite(dynAddPageHash(s, i, P.t2, sriHash),
                                      i, el, P, opts, sriHash, TRUE)
             ELSE removeElem(warn(s, i, "not-allowed"), el)
    ELSE IF startsWithSlash(src)
    THEN LET sriHash == MapGet(s.globalHashes[P.t2], src)
         IN  IF sriHash # ""
             THEN dynInlineAndRewrite(dynAddPageHash(s, i, P.t2, sriHash),
                                      i, el, P, opts, sriHash, FALSE)
             ELSE IF ~isDevResource(src) THEN warn(s, i, "no-local-hash") ELSE s
    ELSE warn(s, i, "unknown-protocol")

\* one iteration of `while ((match = regex.exec(content)) !== null)`
dynElem(s, i, el, P, opts) ==
    IF el.attrs # <<>>
    THEN IF P.attrsRegex /\ ~relStylesheetRegex(el.attrs)
         THEN s
         ELSE LET src == srcMatch(el.attrs, P.srcNames).src
                  givenSriHash == extractIntegrityHash(el.attrs)
              IN  IF el.content # "" /\ src # <<>>
                  THEN removeElem(warn(s, i, "src-and-content"), el)
                  ELSE IF givenSriHash # Undefined
                  THEN dynGivenIntegrity(s, i, el, P, opts, src, givenSriHash)
                  ELSE IF src # <<>>
                  THEN dynSourced(s, i, el, P, opts, src)
                  ELSE dynInlineAndRewrite(s, i, el, P, opts, "", FALSE)
    ELSE dynInlineAndRewrite(s, i, el, P, opts, "", FALSE)

\* the matches of processor p from slot i on, in document order, then the next processor
RECURSIVE dynScan(_, _, _, _, _)
dynScan(s, doc, opts, p, i) ==
    IF p > Len(regexProcessors) THEN s
    ELSE IF i > Len(doc) THEN dynScan(s, doc, opts, p + 1, 1)
    ELSE IF doc[i].tag = regexProcessors[p].tag
    THEN dynScan(dynElem(s, i, doc[i], regexProcessors[p], opts), doc, opts, p, i + 1)
    ELSE dynScan(s, doc, opts, p, i + 1)

updateDynamicPageSriHashes(doc, table, opts) ==
    dynScan([updatedContent |-> doc,
             pageHashes |-> [scripts |-> {}, styles |-> {}],
             warnings |-> <<>>,
             contrib |-> {},
             threw |-> FALSE,
             globalHashes |-> table],
            doc, opts, 1, 1)

(***************************************************************************)
(* updateStaticPageSriHashes                                               *)
(***************************************************************************)
\* what fetch(url).arrayBuffer() yields for a URL: the body of the response,
\* whatever its status; fetch rejects only when no response arrives
RemoteContent ==
    (XoAllowed :> "ra") @@ (XoEvil :> "rx") @@ (ProtoRelEvil :> "rx") @@ (XoGone :> "nf")

\* Response.ok: the status is 2xx and the body is the resource (never read by the code)
ResponseOk(url) == url \in {XoAllowed, XoEvil, ProtoRelEvil}

\* the files below distDir; readFile rejects for any other path
DistFiles == (LocalOk :> "la")

EmptyPageHashes == [scripts |-> {}, styles |-> {}]

EmptyHashesCollection ==
    [inlineScriptHashes |-> {}, inlineStyleHashes |-> {},
     extScriptHashes |-> {}, extStyleHashes |-> {},
     perPageSriHashes |-> [x \in {} |-> EmptyPageHashes],
     perResourceSriHashes |-> [scripts |-> EmptyMap, styles |-> EmptyMap]]

\* h[`ext${t}Hashes`].add(hash)
extAdd(hc, t, hash) ==
    IF t = "Script" THEN [hc EXCEPT !.extScriptHashes = @ \cup {hash}]
    ELSE [hc EXCEPT !.extStyleHashes = @ \cup {hash}]

\* h[`inline${t}Hashes`].add(hash)
inlineAdd(hc, t, hash) ==
    IF t = "Script" THEN [hc EXCEPT !.inlineScriptHashes = @ \cup {hash}]
    ELSE [hc EXCEPT !.inlineStyleHashes = @ \cup {hash}]

\* one loop of scanAllowLists: fetch each URL, add its hash, cache it
RECURSIVE seedAllowList(_, _, _, _)
seedAllowList(s, t, t2, urls) ==
    IF s.threw \/ urls = <<>> THEN s
    ELSE IF Head(urls) \in DOMAIN RemoteContent
    THEN LET sriHash == generateSRIHash(RemoteContent[Head(urls)])
         IN  seedAllowList(
                 [s EXCEPT !.h = [extAdd(@, t, sriHash) EXCEPT
                        !.perResourceSriHashes[t2] = MapSet(@, Head(urls), sriHash)]],
                 t, t2, Tail(urls))
    ELSE [s EXCEPT !.threw = TRUE]

scanAllowLists(sriLists, hc) ==
    seedAllowList(
        seedAllowList([h |-> hc, threw |-> FALSE], "Script", "scripts",
                      sriLists.scriptsAllowListUrls),
        "Style", "styles", sriLists.stylesAllowListUrls)

\* extname(_filePath)
extname(path) ==
    CASE path[Len(path)] \in {"a.js", "x.js", "m.js", "d.js", "gone.js"} -> ".js"
      [] path[Len(path)] \in {"a.css"} -> ".css"
      [] OTHER -> ""

\* the callback scanForNestedResources runs on one file of the directory
nestedResource(hc, relativePath) ==
    IF extname(relativePath) \in {".js", ".mjs"}
    THEN IF relativePath \notin DOMAIN hc.perResourceSriHashes.scripts
         THEN [extAdd(hc, "Script", generateSRIHash(DistFiles[relativePath])) EXCEPT
                  !.perResourceSriHashes.scripts =
                      MapSet(@, relativePath, generateSRIHash(DistFiles[relativePath]))]
         ELSE hc
    ELSE IF extname(relativePath) = ".css"
    THEN IF relativePath \notin DOMAIN hc.perResourceSriHashes.styles
         THEN [extAdd(hc, "Style", generateSRIHash(DistFiles[relativePath])) EXCEPT
                  !.perResourceSriHashes.styles =
                      MapSet(@, relativePath, generateSRIHash(DistFiles[relativePath]))]
         ELSE hc
    ELSE hc

\* the files of the directory, one after the other
RECURSIVE nestedLoop(_, _)
nestedLoop(hc, files) ==
    IF files = {} THEN hc
    ELSE LET f == CHOOSE x \in files : TRUE
         IN  nestedLoop(nestedResource(hc, f), files \ {f})

scanForNestedResources(hc) ==
    nestedLoop(hc, {f \in DOMAIN DistFiles : extname(f) \in {".js", ".mjs", ".css"}})

\* pageHashes[t2].add(hash); pageHashes is the object stored in h.perPageSriHashes
staticAddPageHash(s, i, t2, hash) ==
    [s EXCEPT !.h.perPageSriHashes[s.page][t2] = @ \cup {hash},
              !.contrib = @ \cup {<<i, t2, hash>>}]

staticExt(s, P, hash) == [s EXCEPT !.h = extAdd(@, P.t, hash)]

staticInline(s, P, hash) == [s EXCEPT !.h = inlineAdd(@, P.t, hash)]

staticCache(s, P, src, hash) ==
    [s EXCEPT !.h.perResourceSriHashes[P.t2] = MapSet(@, src, hash)]

\* !(allowInlineScripts === false && t === 'Script') && !(allowInlineStyles === false && t === 'Style')
staticInlineAllowed(P, opts) ==
    /\ ~(opts.allowInlineScripts = "false" /\ P.t = "Script")
    /\ ~(opts.allowInlineStyles = "false" /\ P.t = "Style")

staticInlineAndRewrite(s, i, el, P, opts, sriHash, setCrossorigin) ==
    IF P.hasContent /\ sriHash = ""
    THEN IF staticInlineAllowed(P, opts)
         THEN LET hash == generateSRIHash(el.content)
              IN  rewriteElem(staticAddPageHash(staticInline(s, P, hash), i, P.t2, hash),
                              el, P, hash, setCrossorigin)
         ELSE removeElem(warn(s, i, "inline-disabled"), el)
    ELSE rewriteElem(s, el, P, sriHash, setCrossorigin)

\* an integrity attribute is trusted as it is
staticGivenIntegrity(s, i, el, P, m, givenSriHash) ==
    IF givenSriHash # ""
    THEN LET s1 == IF m.matched THEN staticExt(s, P, givenSriHash)
                   ELSE staticInline(s, P, givenSriHash)
             s2 == staticAddPageHash(s1, i, P.t2, givenSriHash)
         IN  IF m.src # <<>> THEN staticCache(s2, P, m.src, givenSriHash) ELSE s2
    ELSE warn(s, i, "empty-integrity")

\* a read or fetch that misses the cache
staticResolve(s, i, el, P, opts, src) ==
    IF urlLikeRegex(src)
    THEN IF src \in DOMAIN RemoteContent
         THEN LET sriHash == generateSRIHash(RemoteContent[src])
                  s1 == [s EXCEPT !.reads = Append(@, [t2 |-> P.t2, src |-> src])]
              IN  staticInlineAndRewrite(
                      staticCache(staticAddPageHash(staticExt(s1, P, sriHash), i, P.t2, sriHash),
                                  P, src, sriHash),
                      i, el, P, opts, sriHash, TRUE)
         ELSE [s EXCEPT !.threw = TRUE, !.reads = Append(@, [t2 |-> P.t2, src |-> src])]
    ELSE IF startsWithSlash(src)
    THEN IF src \in DOMAIN DistFiles
         THEN LET sriHash == generateSRIHash(DistFiles[src])
                  s1 == [s EXCEPT !.reads = Append(@, [t2 |-> P.t2, src |-> src])]
              IN  staticInlineAndRewrite(
                      staticCache(staticAddPageHash(staticExt(s1, P, sriHash), i, P.t2, sriHash),
                                  P, src, sriHash),
                      i, el, P, opts, sriHash, FALSE)
         ELSE [s EXCEPT !.threw = TRUE, !.reads = Append(@, [t2 |-> P.t2, src |-> src])]
    ELSE warn(s, i, "unknown-protocol")

\* variant: the per-resource cache is never consulted
staticSourced_noCache(s, i, el, P, opts, src) == staticResolve(s, i, el, P, opts, src)

staticSourced(s, i, el, P, opts, src) ==
    LET cachedHash == MapGet(s.h.perResourceSriHashes[P.t2], src)
    IN  IF cachedHash # ""
        THEN staticInlineAndRewrite(
                 staticAddPageHash(staticExt(s, P, cachedHash), i, P.t2, cachedHash),
                 i, el, P, opts, cachedHash, FALSE)
        ELSE staticResolve(s, i, el, P, opts, src)

\* variant: the static scan does not reject elements with both src and content
staticElem_noSrcAndContentCheck(s, i, el, P, opts) ==
    IF el.attrs # <<>>
    THEN IF P.attrsRegex /\ ~relStylesheetRegex(el.attrs)
         THEN s
         ELSE LET m == srcMatch(el.attrs, P.srcNames)
                  givenSriHash == extractIntegrityHash(el.attrs)
              IN  IF givenSriHash # Undefined
                  THEN staticGivenIntegrity(s, i, el, P, m, givenSriHash)
                  ELSE IF m.src # <<>>
                  THEN staticSourced(s, i, el, P, opts, m.src)
                  ELSE staticInlineAndRewrite(s, i, el, P, opts, "", FALSE)
    ELSE staticInlineAndRewrite(s, i, el, P, opts, "", FALSE)

staticElem(s, i, el, P, opts) ==
    IF el.attrs # <<>>
    THEN IF P.attrsRegex /\ ~relStylesheetRegex(el.attrs)
         THEN s
         ELSE LET m == srcMatch(el.attrs, P.srcNames)
                  givenSriHash == extractIntegrityHash(el.attrs)
              IN  IF el.content # "" /\ m.src # <<>>
                  THEN removeElem(warn(s, i, "src-and-content"), el)
                  ELSE IF givenSriHash # Undefined
                  THEN staticGivenIntegrity(s, i, el, P, m, givenSriHash)
                  ELSE IF m.src # <<>>
                  THEN staticSourced(s, i, el, P, opts, m.src)
                  ELSE staticInlineAndRewrite(s, i, el, P, opts, "", FALSE)
    ELSE staticInlineAndRewrite(s, i, el, P, opts, "", FALSE)

\* a rejected await ends the scan: nothing after it runs
RECURSIVE staticScan(_, _, _, _, _)
staticScan(s, doc, opts, p, i) ==
    IF s.threw \/ p > Len(regexProcessors) THEN s
    ELSE IF i > Len(doc) THEN staticScan(s, doc, opts, p + 1, 1)
    ELSE IF doc[i].tag = regexProcessors[p].tag
    THEN staticScan(staticElem(s, i, doc[i], regexProcessors[p], opts), doc, opts, p, i + 1)
    ELSE staticScan(s, doc, opts, p, i + 1)

updateStaticPageSriHashes(relativeFilepath, doc, hc, opts) ==
    LET pageHashes0 == IF relativeFilepath \in DOMAIN hc.perPageSriHashes
                       THEN hc.perPageSriHashes[relativeFilepath]
                       ELSE EmptyPageHashes
    IN  staticScan([updatedContent |-> doc,
                    warnings |-> <<>>,
                    contrib |-> {},
                    threw |-> FALSE,
                    reads |-> <<>>,
                    page |-> relativeFilepath,
                    h |-> [hc EXCEPT !.perPageSriHashes =
                                MapSet(@, relativeFilepath, pageHashes0)]],
                   doc, opts, 1, 1)

(***************************************************************************)
(* The scanner as a state machine: the renderer (or the build) produces a  *)
(* document element by element; the middleware handler, or processHTMLFile *)
(* of the static build, scans it in one step.                              *)
(***************************************************************************)
InlinePolicies == {"all", "static", "false"}

SriOptions ==
    [allowInlineScripts : InlinePolicies, allowInlineStyles : InlinePolicies]

LoadedTable ==
    [scripts |-> (XoAllowed :> "sha256-ra") @@ (LocalOk :> "sha256-la"),
     styles |-> (XoAllowed :> "sha256-ra")]

EmptyTable == [scripts |-> EmptyMap, styles |-> EmptyMap]

Tables == {LoadedTable, EmptyTable}

Pages == {"index.html", "about.html"}

NoResult ==
    [updatedContent |-> <<>>, pageHashes |-> EmptyPageHashes, warnings |-> <<>>,
     contrib |-> {}, threw |-> FALSE, reads |-> <<>>, wrote |-> FALSE,
     hBefore |-> EmptyHashesCollection]

NoConfig == [indentWith |-> "", entries |-> <<>>]

NoHeader == [has |-> FALSE, csp |-> <<>>]

NoPatch == [headers |-> NoHeader, directives |-> NoDirectives, optsBefore |-> NoDirectives]

\* the variables of the other parts of the program, while the scanner runs
CspIdle ==
    /\ cspOpts = [enabled |-> FALSE, defined |-> FALSE, cspDirectives |-> NoDirectives]
    /\ startupOpts = cspOpts
    /\ plainHeaders = NoHeader
    /\ existing = <<>>
    /\ pageHashes = EmptyPageHashes
    /\ patched = NoPatch
    /\ requests = 0

\* ParseContext before the first line: nothing inferred, nothing read
NewContext ==
    [indentWith |-> Undefined, entries |-> <<>>, currentPath |-> 0,
     lineNum |-> 0, error |-> ""]

\* a Vercel config that was not read or built
NoVercelConfig == [version |-> 0]

NoBuildCall ==
    [trailingSlash |-> "ignore",
     optsBefore |-> [enabled |-> FALSE, defined |-> FALSE, cspDirectives |-> NoDirectives]]

VercelIdle ==
    /\ vercelBase = NoVercelConfig
    /\ vercelPatch = NoVercelConfig
    /\ vercelMerged = NoVercelConfig
    /\ buildCall = NoBuildCall

\* the exports of a hashes module without any hash
EmptyExports ==
    [inlineScriptHashes |-> <<>>, inlineStyleHashes |-> <<>>,
     extScriptHashes |-> <<>>, extStyleHashes |-> <<>>,
     perPageSriHashes |-> <<>>,
     perResourceSriHashes |-> [scripts |-> <<>>, styles |-> <<>>]]

\* the file sri.hashesModule does not exist / was not imported by this process
NoModule == [exists |-> FALSE, exports |-> EmptyExports]

\* nothing was called yet in the first build process
NoPersistLog == [process |-> 1, sameInputs |-> FALSE, history |-> <<>>]

ModuleIdle ==
    /\ collected = EmptyExports
    /\ hashesModule = NoModule
    /\ imported = NoModule
    /\ persistLog = NoPersistLog

ParseIdle ==
    /\ cfg = NoConfig
    /\ text = <<>>
    /\ ctx = NewContext
    /\ parsed = NoConfig

NetlifyIdle ==
    /\ base = NoConfig
    /\ patch = NoConfig
    /\ merged = NoConfig
    /\ ParseIdle
    /\ resourceHashes = <<>>
    /\ VercelIdle
    /\ ModuleIdle

ScanIdle ==
    /\ globalHashes = EmptyTable
    /\ sri = [allowInlineScripts |-> "all", allowInlineStyles |-> "all"]
    /\ content = <<>>
    /\ result = NoResult
    /\ h = EmptyHashesCollection
    /\ page = ""
    /\ pagesDone = 0
    /\ scanned = 0

\* sri.scriptsAllowListUrls and sri.stylesAllowListUrls of the builds considered
AllowLists ==
    {[scriptsAllowListUrls |-> <<>>, stylesAllowListUrls |-> <<>>],
     [scriptsAllowListUrls |-> <<XoAllowed>>, stylesAllowListUrls |-> <<XoGone>>],
     [scriptsAllowListUrls |-> <<XoAllowed, XoDown>>, stylesAllowListUrls |-> <<>>]}

Init ==
    /\ mode \in {"dynamic", "static"}
    /\ pc = IF mode = "static" THEN "allowLists" ELSE "compose"
    /\ globalHashes \in (IF mode = "dynamic" THEN Tables ELSE {EmptyTable})
    /\ sri \in SriOptions
    /\ content = <<>>
    /\ result = NoResult
    /\ h = EmptyHashesCollection
    /\ page = ""
    /\ pagesDone = 0
    /\ scanned = 0
    /\ CspIdle
    /\ NetlifyIdle

AddElement(e) ==
    /\ mode \in {"dynamic", "static"}
    /\ pc = "compose"
    /\ scanned + Len(content) < MaxElems
    /\ content' = Append(content, e)
    /\ UNCHANGED <<mode, pc, globalHashes, sri, result, h, page, pagesDone, scanned>>
    /\ UNCHANGED cspVars
    /\ UNCHANGED netlifyVars

\* getMiddlewareHandler: the handler's call of updateDynamicPageSriHashes
HandleRequest ==
    /\ mode = "dynamic"
    /\ pc = "compose"
    /\ LET r == updateDynamicPageSriHashes(content, globalHashes, sri)
       IN  /\ result' = [updatedContent |-> r.updatedContent,
                         pageHashes |-> r.pageHashes,
                         warnings |-> r.warnings,
                         contrib |-> r.contrib,
                         threw |-> r.threw,
                         reads |-> <<>>,
                         wrote |-> FALSE,
                         hBefore |-> h]
           /\ globalHashes' = r.globalHashes
    /\ pc' = "done"
    /\ UNCHANGED <<mode, sri, content, h, page, pagesDone, scanned>>
    /\ UNCHANGED cspVars
    /\ UNCHANGED netlifyVars

\* processStaticFiles, first step: the allow-listed URLs are fetched and seeded
ScanAllowLists(sriLists) ==
    /\ mode = "static"
    /\ pc = "allowLists"
    /\ LET r == scanAllowLists(sriLists, h)
       IN  /\ h' = r.h
           /\ pc' = IF r.threw THEN "failed" ELSE "nested"
    /\ UNCHANGED <<mode, globalHashes, sri, content, result, page, pagesDone, scanned>>
    /\ UNCHANGED cspVars
    /\ UNCHANGED netlifyVars

\* processStaticFiles, second step: the scripts and styles below distDir are hashed
ScanForNestedResources ==
    /\ mode = "static"
    /\ pc = "nested"
    /\ h' = scanForNestedResources(h)
    /\ pc' = "compose"
    /\ UNCHANGED <<mode, globalHashes, sri, content, result, page, pagesDone, scanned>>
    /\ UNCHANGED cspVars
    /\ UNCHANGED netlifyVars

\* processHTMLFile: scan one page of the build and write it back if it changed
ProcessHTMLFile(relativeFilepath) ==
    /\ mode = "static"
    /\ pc = "compose"
    /\ pagesDone < MaxPages
    /\ relativeFilepath \notin DOMAIN h.perPageSriHashes
    /\ LET r == updateStaticPageSriHashes(relativeFilepath, content, h, sri)
       IN  /\ result' = [updatedContent |-> r.updatedContent,
                         pageHashes |-> r.h.perPageSriHashes[relativeFilepath],
                         warnings |-> r.warnings,
                         contrib |-> r.contrib,
                         threw |-> r.threw,
                         reads |-> r.reads,
                         wrote |-> ~r.threw /\ r.updatedContent # content,
                         hBefore |-> h]
           /\ h' = r.h
           /\ pc' = IF r.threw THEN "failed" ELSE "done"
    /\ page' = relativeFilepath
    /\ pagesDone' = pagesDone + 1
    /\ scanned' = scanned + Len(content)
    /\ UNCHANGED <<mode, globalHashes, sri, content>>
    /\ UNCHANGED cspVars
    /\ UNCHANGED netlifyVars

\* the next request, or the next page of the build
NextDocument ==
    /\ mode \in {"dynamic", "static"}
    /\ pc = "done"
    /\ pc' = "compose"
    /\ content' = <<>>
    /\ result' = NoResult
    /\ UNCHANGED <<mode, globalHashes, sri, h, page, pagesDone, scanned>>
    /\ UNCHANGED cspVars
    /\ UNCHANGED netlifyVars

Next ==
    \/ \E e \in Elements : AddElement(e)
    \/ HandleRequest
    \/ \E l \in AllowLists : ScanAllowLists(l)
    \/ ScanForNestedResources
    \/ \E p \in Pages : ProcessHTMLFile(p)
    \/ NextDocument

Spec == Init /\ [][Next]_vars

(***************************************************************************)
(* headers.mts: the CSP header patcher.  A header value or a directive     *)
(* value is a sequence of tokens: words, " " (a run of whitespace) and     *)
(* ";".  A directives object is a function from directive names to values. *)
(***************************************************************************)
\* the strings of the model in the order of JavaScript's default sort
LexOrder ==
    << "", "'none'", "'self'", "'sha256-a'", "'sha256-b'", "'sha256-c'",
       "'unsafe-inline'", "/a.html", "/a.js", "/b.html", "/b.js", "Cache-Control",
       "X-Frame-Options", "X-XSS-Protection", "a.html", "b.html", "base-uri",
       "form-action", "https://cdn.example",
       "script-src", "sha256-a", "sha256-b", "sha256-c", "style-src" >>

Rank(w) == Min({k \in 1..Len(LexOrder) : LexOrder[k] = w})

\* Array.from(set).sort()
RECURSIVE SortedArray(_)
SortedArray(S) ==
    IF S = {} THEN <<>>
    ELSE LET least == CHOOSE x \in S : \A y \in S : Rank(x) <= Rank(y)
         IN  <<least>> \o SortedArray(S \ {least})

\* array.join(' '), as tokens
RECURSIVE JoinWithSpace(_)
JoinWithSpace(words) ==
    IF words = <<>> THEN <<>>
    ELSE IF Len(words) = 1 THEN (IF words[1] = "" THEN <<>> ELSE <<words[1]>>)
    ELSE (IF words[1] = "" THEN <<>> ELSE <<words[1]>>) \o <<" ">> \o JoinWithSpace(Tail(words))

\* `'${hash}'`
Quote(hash) == "'" \o hash \o "'"

\* .map(h => `'${h}'`)
QuoteAll(seq) == [k \in 1..Len(seq) |-> Quote(seq[k])]

serialiseHashes(hashes) == JoinWithSpace(QuoteAll(SortedArray(hashes)))

serializeCspDirectiveSources(sources) == JoinWithSpace(SortedArray(sources))

\* value.split(/\s+/)
RECURSIVE SplitSpaces(_, _)
SplitSpaces(tokens, current) ==
    IF tokens = <<>> THEN <<current>>
    ELSE IF Head(tokens) = " " THEN <<current>> \o SplitSpaces(Tail(tokens), "")
    ELSE SplitSpaces(Tail(tokens), Head(tokens))

\* Object.entries(directives).sort().map(([k, v]) => `${k} ${v}`).join('; ')
RECURSIVE JoinDirectives(_, _)
JoinDirectives(names, directives) ==
    IF names = <<>> THEN <<>>
    ELSE <<Head(names), " ">> \o directives[Head(names)]
         \o (IF Len(names) > 1 THEN <<";", " ">> ELSE <<>>)
         \o JoinDirectives(Tail(names), directives)

serialiseCspDirectives(directives) ==
    JoinDirectives(SortedArray(DOMAIN directives), directives)

\* variant: the computed hashes replace whatever the directive held
setSrcDirective_override(directives, srcType, hashes) ==
    MapSet(directives, srcType, <<"'self'", " ">> \o serialiseHashes(hashes))

\* returns the directives object after the in-place update
setSrcDirective(directives, srcType, hashes) ==
    LET baseSrcDirective == IF srcType \in DOMAIN directives THEN directives[srcType] ELSE <<>>
    IN  IF baseSrcDirective # <<>>
        THEN LET srcDirective == Range(SplitSpaces(baseSrcDirective, ""))
                                    \cup {Quote(hash) : hash \in hashes}
             IN  MapSet(directives, srcType, serializeCspDirectiveSources(srcDirective))
        ELSE MapSet(directives, srcType, <<"'self'", " ">> \o serialiseHashes(hashes))

\* cspHeader.split(/;\s*/).filter(v => !!v)
RECURSIVE SplitDirectives(_, _)
SplitDirectives(tokens, current) ==
    IF tokens = <<>> THEN (IF current = <<>> THEN <<>> ELSE <<current>>)
    ELSE IF Head(tokens) = ";"
    THEN (IF current = <<>> THEN <<>> ELSE <<current>>)
         \o SplitDirectives(IF Len(tokens) > 1 /\ tokens[2] = " "
                            THEN Tail(Tail(tokens)) ELSE Tail(tokens), <<>>)
    ELSE SplitDirectives(Tail(tokens), Append(current, Head(tokens)))

\* directive.replace(/\s+/, '||||||').split('||||||'): [name, value]
splitDirective(directive) ==
    LET I == {k \in 1..Len(directive) : directive[k] = " "}
    IN  IF I = {} THEN [name |-> directive[1], value |-> <<>>]
        ELSE [name |-> IF Min(I) = 1 THEN "" ELSE directive[1],
              value |-> SubSeq(directive, Min(I) + 1, Len(directive))]

\* Object.fromEntries: a later entry replaces an earlier one of the same name
RECURSIVE FromEntries(_, _)
FromEntries(entries, obj) ==
    IF entries = <<>> THEN obj
    ELSE FromEntries(Tail(entries), MapSet(obj, Head(entries).name, Head(entries).value))

parseCspDirectives(cspHeader) ==
    IF cspHeader # <<>>
    THEN FromEntries([k \in 1..Len(SplitDirectives(cspHeader, <<>>)) |->
                         splitDirective(SplitDirectives(cspHeader, <<>>)[k])],
                     [x \in {} |-> <<>>])
    ELSE [x \in {} |-> <<>>]

\* variant: the configured defaults win over the existing header
Spread_firstWins(a, b) == [x \in DOMAIN a \cup DOMAIN b |-> IF x \in DOMAIN a THEN a[x] ELSE b[x]]

\* { ...a, ...b }
Spread(a, b) == [x \in DOMAIN a \cup DOMAIN b |-> IF x \in DOMAIN b THEN b[x] ELSE a[x]]

\* variant: 'none' is only a default for a directive nobody defined
patchCspHeader_noneAsDefault(headers, hashes, opts) ==
    LET aliased == ~headers.has /\ opts.defined
        directives0 == IF headers.has
                       THEN Spread(IF opts.defined THEN opts.cspDirectives ELSE NoDirectives,
                                   parseCspDirectives(headers.csp))
                       ELSE IF opts.defined THEN opts.cspDirectives ELSE NoDirectives
        directives1 == IF Cardinality(hashes.scripts) > 0
                       THEN setSrcDirective(directives0, "script-src", hashes.scripts)
                       ELSE IF "script-src" \in DOMAIN directives0 THEN directives0
                       ELSE MapSet(directives0, "script-src", <<"'none'">>)
        directives2 == IF Cardinality(hashes.styles) > 0
                       THEN setSrcDirective(directives1, "style-src", hashes.styles)
                       ELSE IF "style-src" \in DOMAIN directives1 THEN directives1
                       ELSE MapSet(directives1, "style-src", <<"'none'">>)
    IN  [headers |-> [has |-> TRUE, csp |-> serialiseCspDirectives(directives2)],
         directives |-> directives2,
         opts |-> IF aliased THEN [opts EXCEPT !.cspDirectives = directives2] ELSE opts]

\* The outcome of patchCspHeader: the header it set and the options object
\* after the call.  Without an existing header `directives` IS the object
\* cspOpts.cspDirectives (when defined), so the assignments land in it.
patchCspHeader(headers, hashes, opts) ==
    LET aliased == ~headers.has /\ opts.defined
        directives0 == IF headers.has
                       THEN Spread(IF opts.defined THEN opts.cspDirectives ELSE NoDirectives,
                                   parseCspDirectives(headers.csp))
                       ELSE IF opts.defined THEN opts.cspDirectives ELSE NoDirectives
        directives1 == IF Cardinality(hashes.scripts) > 0
                       THEN setSrcDirective(directives0, "script-src", hashes.scripts)
                       ELSE MapSet(directives0, "script-src", <<"'none'">>)
        directives2 == IF Cardinality(hashes.styles) > 0
                       THEN setSrcDirective(directives1, "style-src", hashes.styles)
                       ELSE MapSet(directives1, "style-src", <<"'none'">>)
    IN  [headers |-> IF DOMAIN directives2 # {}
                     THEN [has |-> TRUE, csp |-> serialiseCspDirectives(directives2)]
                     ELSE headers,
         directives |-> directives2,
         opts |-> IF aliased THEN [opts EXCEPT !.cspDirectives = directives2] ELSE opts]

\* new Headers(...) strips leading and trailing whitespace of a value
RECURSIVE TrimValue(_)
TrimValue(tokens) ==
    IF tokens # <<>> /\ Head(tokens) = " " THEN TrimValue(Tail(tokens))
    ELSE IF tokens # <<>> /\ tokens[Len(tokens)] = " "
    THEN TrimValue(SubSeq(tokens, 1, Len(tokens) - 1))
    ELSE tokens

patchHeaders(headers, hashes, securityHeadersOpts) ==
    IF securityHeadersOpts.enabled
    THEN LET r == patchCspHeader(headers, hashes, securityHeadersOpts)
         IN  [r EXCEPT !.headers.csp = TrimValue(@)]
    ELSE [headers |-> headers, directives |-> NoDirectives, opts |-> securityHeadersOpts]

(***************************************************************************)
(* The CSP middleware as a state machine: every response is patched with   *)
(* the page hashes of its document and the options object built at startup.*)
(***************************************************************************)
Directive(name, value) == [name |-> name, value |-> value]

CspConfigs ==
    { [enabled |-> FALSE, defined |-> FALSE, cspDirectives |-> NoDirectives],
      [enabled |-> TRUE, defined |-> FALSE, cspDirectives |-> NoDirectives],
      [enabled |-> TRUE, defined |-> TRUE, cspDirectives |-> NoDirectives],
      [enabled |-> TRUE, defined |-> TRUE,
       cspDirectives |-> ("form-action" :> <<"'self'">>) @@ ("base-uri" :> <<"'self'">>)],
      [enabled |-> TRUE, defined |-> TRUE,
       cspDirectives |-> ("script-src" :> <<"'self'", " ", "https://cdn.example">>)
                         @@ ("form-action" :> <<"'self'">>)],
      [enabled |-> TRUE, defined |-> TRUE,
       cspDirectives |-> ("style-src" :> <<"'unsafe-inline'">>)] }

\* the directives an upstream handler may already have put on the response
ExistingDirectives ==
    { <<>>,
      <<Directive("form-action", <<"'none'">>), Directive("base-uri", <<"'none'">>)>>,
      <<Directive("script-src", <<"'self'", " ", "https://cdn.example">>)>>,
      <<Directive("style-src", <<"'none'">>), Directive("form-action", <<"'none'">>)>> }

\* the header text: `name value` entries joined by "; "
RECURSIVE RenderExisting(_)
RenderExisting(pairs) ==
    IF pairs = <<>> THEN <<>>
    ELSE <<Head(pairs).name, " ">> \o Head(pairs).value
         \o (IF Len(pairs) > 1 THEN <<";", " ">> ELSE <<>>)
         \o RenderExisting(Tail(pairs))

PageHashSets ==
    [scripts : {{}, {"sha256-b"}, {"sha256-b", "sha256-a"}},
     styles : {{}, {"sha256-c"}, {"sha256-c", "sha256-a"}}]

InitCsp ==
    /\ mode = "csp"
    /\ pc = "serving"
    /\ cspOpts \in CspConfigs
    /\ startupOpts = cspOpts
    /\ plainHeaders = NoHeader
    /\ existing = <<>>
    /\ pageHashes = EmptyPageHashes
    /\ patched = NoPatch
    /\ requests = 0
    /\ ScanIdle
    /\ NetlifyIdle

\* getCSPMiddlewareHandler: patchHeaders(response.headers, pageHashes, securityHeadersOpts)
PatchResponse(hasHeader, pairs, hashes) ==
    /\ mode = "csp"
    /\ requests < MaxRequests
    /\ hasHeader \/ pairs = <<>>
    /\ LET headers == [has |-> hasHeader, csp |-> RenderExisting(pairs)]
           r == patchHeaders(headers, hashes, cspOpts)
       IN  /\ plainHeaders' = headers
           /\ patched' = [headers |-> r.headers, directives |-> r.directives,
                          optsBefore |-> cspOpts.cspDirectives]
           /\ cspOpts' = r.opts
    /\ existing' = pairs
    /\ pageHashes' = hashes
    /\ requests' = requests + 1
    /\ UNCHANGED <<mode, pc>>
    /\ UNCHANGED scanVars
    /\ UNCHANGED netlifyVars

NextCsp ==
    \E hasHeader \in BOOLEAN, pairs \in ExistingDirectives, hashes \in PageHashSets :
        PatchResponse(hasHeader, pairs, hashes)

SpecCsp == InitCsp /\ [][NextCsp]_vars

(***************************************************************************)
(* netlify.mts: merging two parsed _headers configs.  A config entry is a  *)
(* blank line, a comment or a path block; a block entry is a comment or a  *)
(* header.                                                                 *)
(***************************************************************************)
EmptyLine == [kind |-> "blank"]
CommentEntry(c) == [kind |-> "comment", comment |-> c]
HeaderEntry(n, v) == [kind |-> "header", headerName |-> n, value |-> v]
NetlifyPathHeaders(p, es) == [kind |-> "path", path |-> p, entries |-> es]

compareConfigEntries(a, b) ==
    IF a.kind # "path" \/ b.kind # "path" THEN 0
    ELSE IF Rank(a.path) < Rank(b.path) THEN -1
    ELSE IF Rank(a.path) > Rank(b.path) THEN 1
    ELSE 0

comparePathEntriesSimplified(a, b) ==
    IF a.kind = "comment" \/ b.kind = "comment" THEN 0
    ELSE IF Rank(a.headerName) < Rank(b.headerName) THEN -1
    ELSE IF Rank(a.headerName) > Rank(b.headerName) THEN 1
    ELSE 0

\* entries.slice().sort(compareConfigEntries) as the runtime performs it on a
\* short array: the leading run is found (a strictly descending one is
\* reversed), then the remaining elements are placed by binary insertion.
RECURSIVE RunEnd(_, _, _)
RunEnd(a, descending, idx) ==
    IF idx > Len(a) THEN Len(a)
    ELSE LET order == compareConfigEntries(a[idx], a[idx - 1])
         IN  IF (descending /\ order >= 0) \/ (~descending /\ order < 0)
             THEN idx - 1
             ELSE RunEnd(a, descending, idx + 1)

Reverse(a) == [k \in 1..Len(a) |-> a[Len(a) + 1 - k]]

\* left and right are 0-based, as in the runtime
RECURSIVE InsertionPoint(_, _, _, _)
InsertionPoint(a, pivot, left, right) ==
    IF left >= right THEN left
    ELSE LET mid == left + ((right - left) \div 2)
         IN  IF compareConfigEntries(pivot, a[mid + 1]) < 0
             THEN InsertionPoint(a, pivot, left, mid)
             ELSE InsertionPoint(a, pivot, mid + 1, right)

RECURSIVE BinaryInsertionSort(_, _)
BinaryInsertionSort(a, start) ==
    IF start > Len(a) THEN a
    ELSE LET pivot == a[start]
             left == InsertionPoint(a, pivot, 0, start - 1)
             moved == SubSeq(a, 1, left) \o <<pivot>> \o SubSeq(a, left + 1, start - 1)
                      \o SubSeq(a, start + 1, Len(a))
         IN  BinaryInsertionSort(moved, start + 1)

SortConfigEntries(a) ==
    IF Len(a) < 2 THEN a
    ELSE LET descending == compareConfigEntries(a[2], a[1]) < 0
             runEnd == RunEnd(a, descending, 3)
             run == IF descending
                    THEN Reverse(SubSeq(a, 1, runEnd)) \o SubSeq(a, runEnd + 1, Len(a))
                    ELSE a
         IN  BinaryInsertionSort(run, runEnd + 1)

RECURSIVE mergePathLoop(_, _, _, _, _)
mergePathLoop(baseEntries, patchEntries, baseIndex, patchIndex, mergedEntries) ==
    IF baseIndex <= Len(baseEntries) /\ patchIndex <= Len(patchEntries)
    THEN LET baseEntry == baseEntries[baseIndex]
             patchEntry == patchEntries[patchIndex]
             order == comparePathEntriesSimplified(baseEntry, patchEntry)
         IN  IF order = -1
             THEN mergePathLoop(baseEntries, patchEntries, baseIndex + 1, patchIndex,
                                Append(mergedEntries, baseEntry))
             ELSE IF order = 0
             THEN IF patchEntry.kind = "comment"
                  THEN mergePathLoop(baseEntries, patchEntries, baseIndex, patchIndex + 1,
                                     mergedEntries)
                  ELSE IF baseEntry.kind = "comment"
                  THEN mergePathLoop(baseEntries, patchEntries, baseIndex + 1, patchIndex,
                                     Append(mergedEntries, baseEntry))
                  ELSE mergePathLoop(baseEntries, patchEntries, baseIndex + 1, patchIndex + 1,
                                     Append(mergedEntries, patchEntry))
             ELSE mergePathLoop(baseEntries, patchEntries, baseIndex, patchIndex + 1,
                                Append(mergedEntries, patchEntry))
    ELSE mergedEntries
         \o SubSeq(baseEntries, baseIndex, Len(baseEntries))
         \o SubSeq(patchEntries, patchIndex, Len(patchEntries))

mergeNetlifyPathHeaders(baseEntries, patchEntries) ==
    mergePathLoop(baseEntries, patchEntries, 1, 1, <<>>)

\* variant: every unmatched path block is discarded, empty or not
IsEmptyPathBlock_anyBlock(e) == e.kind = "path"

\* typeof e === 'object' && 'entries' in e && e.entries.length === 0
IsEmptyPathBlock(e) == e.kind = "path" /\ Len(e.entries) = 0

RECURSIVE mergeConfigLoop(_, _, _, _, _)
mergeConfigLoop(baseEntries, patchEntries, baseIndex, patchIndex, mergedEntries) ==
    IF baseIndex <= Len(baseEntries) /\ patchIndex <= Len(patchEntries)
    THEN LET baseEntry == baseEntries[baseIndex]
             patchEntry == patchEntries[patchIndex]
             order == compareConfigEntries(baseEntry, patchEntry)
         IN  IF order = -1
             THEN mergeConfigLoop(baseEntries, patchEntries, baseIndex + 1, patchIndex,
                                  IF IsEmptyPathBlock(baseEntry) THEN mergedEntries
                                  ELSE Append(mergedEntries, baseEntry))
             ELSE IF order = 0
             THEN IF patchEntry.kind \in {"blank", "comment"}
                  THEN mergeConfigLoop(baseEntries, patchEntries, baseIndex, patchIndex + 1,
                                       mergedEntries)
                  ELSE IF baseEntry.kind \in {"blank", "comment"}
                  THEN mergeConfigLoop(baseEntries, patchEntries, baseIndex, patchIndex + 1,
                                       Append(mergedEntries, patchEntry))
                  ELSE mergeConfigLoop(baseEntries, patchEntries, baseIndex + 1, patchIndex + 1,
                                       Append(mergedEntries,
                                              NetlifyPathHeaders(baseEntry.path,
                                                  mergeNetlifyPathHeaders(baseEntry.entries,
                                                                          patchEntry.entries))))
             ELSE mergeConfigLoop(baseEntries, patchEntries, baseIndex, patchIndex + 1,
                                  IF IsEmptyPathBlock(patchEntry) THEN mergedEntries
                                  ELSE Append(mergedEntries, patchEntry))
    ELSE mergedEntries
         \o SubSeq(baseEntries, baseIndex, Len(baseEntries))
         \o SubSeq(patchEntries, patchIndex, Len(patchEntries))

mergeNetlifyHeadersConfig(baseConfig, patchConfig) ==
    [indentWith |-> baseConfig.indentWith,
     entries |-> mergeConfigLoop(SortConfigEntries(baseConfig.entries),
                                 SortConfigEntries(patchConfig.entries),
                                 1, 1, <<>>)]

(***************************************************************************)
(* The Netlify merge as a state machine: the base config is what the       *)
(* parser read from an existing _headers file, line by line; the patch is  *)
(* a second config; mergeNetlifyHeadersConfig merges them.                 *)
(***************************************************************************)
NetlifyPaths == {"/a.html", "/b.html"}

BlockLines ==
    {HeaderEntry("Cache-Control", "no-cache"), HeaderEntry("Cache-Control", "no-store"),
     HeaderEntry("X-Frame-Options", "DENY"), CommentEntry("# note")}

TopLines ==
    {EmptyLine, CommentEntry("# top")} \cup {NetlifyPathHeaders(p, <<>>) : p \in NetlifyPaths}

\* the number of lines a config is written in
RECURSIVE LineCount(_)
LineCount(entries) ==
    IF entries = <<>> THEN 0
    ELSE (IF Head(entries).kind = "path" THEN 1 + Len(Head(entries).entries) ELSE 1)
         + LineCount(Tail(entries))

\* a line read inside the current path block
PushEntry(config, e) ==
    [config EXCEPT !.entries[Len(config.entries)].entries = Append(@, e)]

\* a line that starts a new top-level entry
PushTop(config, e) == [config EXCEPT !.entries = Append(@, e)]

InPathBlock(config) ==
    config.entries # <<>> /\ config.entries[Len(config.entries)].kind = "path"

InitNetlify ==
    /\ mode = "netlify"
    /\ pc = "base"
    /\ base = [indentWith |-> "\t", entries |-> <<>>]
    /\ patch = [indentWith |-> "  ", entries |-> <<>>]
    /\ merged = NoConfig
    /\ ParseIdle
    /\ resourceHashes = <<>>
    /\ VercelIdle
    /\ ModuleIdle
    /\ ScanIdle
    /\ CspIdle

AddBaseTopLine(e) ==
    /\ mode = "netlify" /\ pc = "base"
    /\ LineCount(base.entries) < MaxBaseLines
    /\ base' = PushTop(base, e)
    /\ UNCHANGED <<mode, pc, patch, merged>>
    /\ UNCHANGED parseVars
    /\ UNCHANGED <<resourceHashes, vercelVars, moduleVars>>
    /\ UNCHANGED scanVars
    /\ UNCHANGED cspVars

AddBaseBlockLine(e) ==
    /\ mode = "netlify" /\ pc = "base"
    /\ LineCount(base.entries) < MaxBaseLines
    /\ InPathBlock(base)
    /\ base' = PushEntry(base, e)
    /\ UNCHANGED <<mode, pc, patch, merged>>
    /\ UNCHANGED parseVars
    /\ UNCHANGED <<resourceHashes, vercelVars, moduleVars>>
    /\ UNCHANGED scanVars
    /\ UNCHANGED cspVars

BaseRead ==
    /\ mode = "netlify" /\ pc = "base"
    /\ pc' = "patch"
    /\ UNCHANGED <<mode, base, patch, merged>>
    /\ UNCHANGED parseVars
    /\ UNCHANGED <<resourceHashes, vercelVars, moduleVars>>
    /\ UNCHANGED scanVars
    /\ UNCHANGED cspVars

AddPatchTopLine(e) ==
    /\ mode = "netlify" /\ pc = "patch"
    /\ LineCount(patch.entries) < MaxPatchLines
    /\ patch' = PushTop(patch, e)
    /\ UNCHANGED <<mode, pc, base, merged>>
    /\ UNCHANGED parseVars
    /\ UNCHANGED <<resourceHashes, vercelVars, moduleVars>>
    /\ UNCHANGED scanVars
    /\ UNCHANGED cspVars

AddPatchBlockLine(e) ==
    /\ mode = "netlify" /\ pc = "patch"
    /\ LineCount(patch.entries) < MaxPatchLines
    /\ InPathBlock(patch)
    /\ patch' = PushEntry(patch, e)
    /\ UNCHANGED <<mode, pc, base, merged>>
    /\ UNCHANGED parseVars
    /\ UNCHANGED <<resourceHashes, vercelVars, moduleVars>>
    /\ UNCHANGED scanVars
    /\ UNCHANGED cspVars

\* patchNetlifyHeadersConfig: mergeNetlifyHeadersConfig(baseConfig, patchConfig)
Merge ==
    /\ mode = "netlify" /\ pc = "patch"
    /\ merged' = mergeNetlifyHeadersConfig(base, patch)
    /\ pc' = "merged"
    /\ UNCHANGED <<mode, base, patch>>
    /\ UNCHANGED parseVars
    /\ UNCHANGED <<resourceHashes, vercelVars, moduleVars>>
    /\ UNCHANGED scanVars
    /\ UNCHANGED cspVars

NextNetlify ==
    \/ \E e \in TopLines : AddBaseTopLine(e)
    \/ \E e \in BlockLines : AddBaseBlockLine(e)
    \/ BaseRead
    \/ \E e \in TopLines : AddPatchTopLine(e)
    \/ \E e \in BlockLines : AddPatchBlockLine(e)
    \/ Merge

SpecNetlify == InitNetlify /\ [][NextNetlify]_vars

(***************************************************************************)
(* netlify.mts: serialising and parsing a _headers file.  A text is a      *)
(* sequence of tokens: "\n", the whitespace characters "\t" and " ", ":"   *)
(* and words without whitespace.  A line is a text without "\n".           *)
(***************************************************************************)
Whitespace == {"\t", " "}

\* the words that start with '#', with '/', and those made of [a-zA-Z0-9_-]
HashWords == {"# top", "# note"}
SlashWords == NetlifyPaths
NameWords == {"Cache-Control", "X-Frame-Options", "garbage"}

\* the tokens a string of a config is written with
Chars(str) ==
    CASE str = "" -> <<>>
      [] str = "  " -> <<" ", " ">>
      [] str = " no-cache" -> <<" ", "no-cache">>
      [] OTHER -> <<str>>

\* the string a run of tokens reads as
RECURSIVE Concat(_)
Concat(tokens) == IF tokens = <<>> THEN "" ELSE Head(tokens) \o Concat(Tail(tokens))

serializeEntry(indent, e) ==
    IF e.kind = "comment" THEN Chars(indent) \o Chars(e.comment)
    ELSE Chars(indent) \o Chars(e.headerName) \o <<":", " ">> \o Chars(e.value)

\* entries.map(...).join('\n')
RECURSIVE serializeEntries(_, _)
serializeEntries(indent, entries) ==
    IF entries = <<>> THEN <<>>
    ELSE IF Len(entries) = 1 THEN serializeEntry(indent, entries[1])
    ELSE serializeEntry(indent, entries[1]) \o <<"\n">> \o serializeEntries(indent, Tail(entries))

RECURSIVE serializeNetlifyHeadersConfig(_)
serializeNetlifyHeadersConfig(config) ==
    IF config.entries = <<>> THEN <<>>
    ELSE LET entry == Head(config.entries)
             rest == serializeNetlifyHeadersConfig([config EXCEPT !.entries = Tail(@)])
         IN  IF entry.kind = "blank" THEN <<"\n">> \o rest
             ELSE IF entry.kind = "comment" THEN Chars(entry.comment) \o <<"\n">> \o rest
             ELSE Chars(entry.path) \o <<"\n">>
                  \o serializeEntries(config.indentWith, entry.entries) \o <<"\n">> \o rest

\* config.split('\n')
RECURSIVE SplitLines(_, _)
SplitLines(tokens, current) ==
    IF tokens = <<>> THEN <<current>>
    ELSE IF Head(tokens) = "\n" THEN <<current>> \o SplitLines(Tail(tokens), <<>>)
    ELSE SplitLines(Tail(tokens), Append(current, Head(tokens)))

\* the number of whitespace tokens a line starts with
RECURSIVE LeadingSpaces(_)
LeadingSpaces(line) ==
    IF line # <<>> /\ Head(line) \in Whitespace THEN 1 + LeadingSpaces(Tail(line)) ELSE 0

\* /^\s+/
netlifySpacesRegex(line) == LeadingSpaces(line) > 0

\* /^(?<indent>\s*)(?<comment>#.*)$/i
commentRegex(line) ==
    LET n == LeadingSpaces(line)
    IN  IF n < Len(line) /\ line[n + 1] \in HashWords
        THEN [ok |-> TRUE, indent |-> Concat(SubSeq(line, 1, n)),
              comment |-> Concat(SubSeq(line, n + 1, Len(line)))]
        ELSE [ok |-> FALSE, indent |-> "", comment |-> ""]

\* /^(?<indent>\s*)(?<name>([a-zA-Z0-9_\-]+)):\s*(?<value>.*)$/i
headerRegex(line) ==
    LET n == LeadingSpaces(line)
        rest == SubSeq(line, n + 3, Len(line))
    IN  IF n + 2 <= Len(line) /\ line[n + 1] \in NameWords /\ line[n + 2] = ":"
        THEN [ok |-> TRUE, indent |-> Concat(SubSeq(line, 1, n)), name |-> line[n + 1],
              value |-> Concat(SubSeq(rest, LeadingSpaces(rest) + 1, Len(rest)))]
        ELSE [ok |-> FALSE, indent |-> "", name |-> "", value |-> ""]

\* throw new Error(`<message> (line ${lineNum})`)
throw(c, message) == [c EXCEPT !.error = message]

tryToInitializePathConfig(c, line) ==
    IF line = <<>> THEN [c EXCEPT !.entries = Append(@, EmptyLine)]
    ELSE IF line[1] \in HashWords
    THEN [c EXCEPT !.entries = Append(@, CommentEntry(Concat(line)))]
    ELSE IF netlifySpacesRegex(line) THEN throw(c, "Unexpected indentation")
    ELSE IF line[1] \in SlashWords
    THEN [c EXCEPT !.entries = Append(@, NetlifyPathHeaders(Concat(line), <<>>)),
                   !.currentPath = Len(c.entries) + 1]
    ELSE throw(c, "Bad syntax")

\* ctx.currentPath?.entries.length ?? 0
currentPathLength(c) ==
    IF c.currentPath = 0 THEN 0 ELSE Len(c.entries[c.currentPath].entries)

\* the unindented line ends the block, which must hold an entry by now
endPath(c, line) ==
    IF currentPathLength(c) = 0 THEN throw(c, "Bad syntax")
    ELSE tryToInitializePathConfig([c EXCEPT !.currentPath = 0], line)

\* pushComment / pushHeader: currentPath?.entries.push(...)
pushLine(c, e) ==
    IF c.currentPath = 0 THEN c
    ELSE [c EXCEPT !.entries[c.currentPath].entries = Append(@, e)]

pushEntry(c, match, line, e) ==
    IF c.indentWith = Undefined /\ match.indent = ""
    THEN throw(c, "Unable to infer indentation")
    ELSE LET c1 == IF c.indentWith = Undefined
                   THEN [c EXCEPT !.indentWith = match.indent] ELSE c
         IN  IF match.indent = "" THEN endPath(c1, line)
             ELSE IF match.indent # c1.indentWith THEN throw(c1, "Unexpected indentation")
             ELSE pushLine(c1, e)

processPathLine(c, line) ==
    IF commentRegex(line).ok
    THEN pushEntry(c, commentRegex(line), line, CommentEntry(commentRegex(line).comment))
    ELSE IF headerRegex(line).ok
    THEN pushEntry(c, headerRegex(line), line,
                   HeaderEntry(headerRegex(line).name, headerRegex(line).value))
    ELSE IF ~netlifySpacesRegex(line) THEN endPath(c, line)
    ELSE c

\* one turn of the loop over config.split('\n').entries()
parseLine(c, line) ==
    LET c1 == IF c.currentPath = 0 THEN tryToInitializePathConfig(c, line)
              ELSE processPathLine(c, line)
    IN  IF c1.error # "" THEN c1 ELSE [c1 EXCEPT !.lineNum = @ + 1]

\* variant: the blank entry that the text's final line break yields is kept
parseResult_keepLastBlank(c) ==
    [indentWith |-> IF c.indentWith = Undefined THEN "\t" ELSE c.indentWith,
     entries |-> c.entries]

\* the value parseNetlifyHeadersConfig returns once every line is read
parseResult(c) ==
    [indentWith |-> IF c.indentWith = Undefined THEN "\t" ELSE c.indentWith,
     entries |-> IF c.entries # <<>> /\ c.entries[Len(c.entries)] = EmptyLine
                 THEN SubSeq(c.entries, 1, Len(c.entries) - 1) ELSE c.entries]

(***************************************************************************)
(* Serialising and parsing as a state machine: a config is composed entry  *)
(* by entry and serialised, or a text is typed line by line; the parser    *)
(* then reads the text one line per step and returns, or throws.           *)
(***************************************************************************)
IndentStrings == {"\t", "  "}

ConfigBlockLines == BlockLines \cup {HeaderEntry("Cache-Control", " no-cache")}

TextLines ==
    { <<>>, <<"# top">>, <<"\t", "# note">>, <<"/a.html">>,
      <<"\t", "Cache-Control", ":", " ", "no-cache">>,
      <<" ", " ", "X-Frame-Options", ":", " ", "DENY">>,
      <<"X-Frame-Options", ":", " ", "DENY">>,
      <<"\t", "garbage">>, <<"garbage">>, <<"\t">> }

InitParse ==
    /\ mode = "parse"
    /\ \/ pc = "compose" /\ \E i \in IndentStrings : cfg = [indentWith |-> i, entries |-> <<>>]
       \/ pc = "type" /\ cfg = NoConfig
    /\ text = <<>>
    /\ ctx = NewContext
    /\ parsed = NoConfig
    /\ base = NoConfig /\ patch = NoConfig /\ merged = NoConfig
    /\ resourceHashes = <<>>
    /\ VercelIdle
    /\ ModuleIdle
    /\ ScanIdle
    /\ CspIdle

AddTopEntry(e) ==
    /\ mode = "parse" /\ pc = "compose"
    /\ LineCount(cfg.entries) < MaxConfigLines
    /\ cfg' = PushTop(cfg, e)
    /\ UNCHANGED <<mode, pc, text, ctx, parsed, base, patch, merged, resourceHashes, vercelVars, moduleVars>>
    /\ UNCHANGED scanVars
    /\ UNCHANGED cspVars

AddBlockEntry(e) ==
    /\ mode = "parse" /\ pc = "compose"
    /\ LineCount(cfg.entries) < MaxConfigLines
    /\ InPathBlock(cfg)
    /\ cfg' = PushEntry(cfg, e)
    /\ UNCHANGED <<mode, pc, text, ctx, parsed, base, patch, merged, resourceHashes, vercelVars, moduleVars>>
    /\ UNCHANGED scanVars
    /\ UNCHANGED cspVars

\* serializeNetlifyHeadersConfig(cfg), handed to parseNetlifyHeadersConfig
Serialize ==
    /\ mode = "parse" /\ pc = "compose"
    /\ text' = SplitLines(serializeNetlifyHeadersConfig(cfg), <<>>)
    /\ pc' = "parse"
    /\ UNCHANGED <<mode, cfg, ctx, parsed, base, patch, merged, resourceHashes, vercelVars, moduleVars>>
    /\ UNCHANGED scanVars
    /\ UNCHANGED cspVars

TypeLine(line) ==
    /\ mode = "parse" /\ pc = "type"
    /\ Len(text) < MaxTextLines
    /\ text' = Append(text, line)
    /\ UNCHANGED <<mode, pc, cfg, ctx, parsed, base, patch, merged, resourceHashes, vercelVars, moduleVars>>
    /\ UNCHANGED scanVars
    /\ UNCHANGED cspVars

\* readNetlifyHeadersFile: the typed text is handed to the parser
ReadFile ==
    /\ mode = "parse" /\ pc = "type"
    /\ text # <<>>
    /\ pc' = "parse"
    /\ UNCHANGED <<mode, cfg, text, ctx, parsed, base, patch, merged, resourceHashes, vercelVars, moduleVars>>
    /\ UNCHANGED scanVars
    /\ UNCHANGED cspVars

ParseLine ==
    /\ mode = "parse" /\ pc = "parse"
    /\ ctx.lineNum < Len(text)
    /\ ctx' = parseLine(ctx, text[ctx.lineNum + 1])
    /\ pc' = IF ctx'.error # "" THEN "threw" ELSE "parse"
    /\ UNCHANGED <<mode, cfg, text, parsed, base, patch, merged, resourceHashes, vercelVars, moduleVars>>
    /\ UNCHANGED scanVars
    /\ UNCHANGED cspVars

Return ==
    /\ mode = "parse" /\ pc = "parse"
    /\ ctx.lineNum = Len(text)
    /\ parsed' = parseResult(ctx)
    /\ pc' = "returned"
    /\ UNCHANGED <<mode, cfg, text, ctx, base, patch, merged, resourceHashes, vercelVars, moduleVars>>
    /\ UNCHANGED scanVars
    /\ UNCHANGED cspVars

NextParse ==
    \/ \E e \in TopLines : AddTopEntry(e)
    \/ \E e \in ConfigBlockLines : AddBlockEntry(e)
    \/ Serialize
    \/ \E line \in TextLines : TypeLine(line)
    \/ ReadFile
    \/ ParseLine
    \/ Return

SpecParse == InitParse /\ [][NextParse]_vars

(***************************************************************************)
(* netlify.mts: building the patch config from the per-page hashes.  A     *)
(* page name is the sequence of its characters.                            *)
(***************************************************************************)
IndexHtml == <<"i", "n", "d", "e", "x", ".", "h", "t", "m", "l">>

\* page === 'index.html' || page.endsWith('/index.html')
isIndexPage(p) ==
    \/ p = IndexHtml
    \/ Len(p) > 10 /\ SubSeq(p, Len(p) - 10, Len(p)) = <<"/">> \o IndexHtml

\* page.slice(0, -10)
sliceIndexHtml(p) == SubSeq(p, 1, Len(p) - 10)

\* the characters of the model in ascending order of their code unit
CodeUnits ==
    << " ", "+", ",", ".", "/", "O", "[", "]", "a", "b", "c", "d", "e", "h", "i",
       "j", "l", "m", "n", "o", "t", "x" >>

CodeUnit(ch) == CHOOSE k \in 1..Len(CodeUnits) : CodeUnits[k] = ch

\* x < y on strings
RECURSIVE StringLess(_, _)
StringLess(x, y) ==
    IF y = <<>> THEN FALSE
    ELSE IF x = <<>> THEN TRUE
    ELSE IF Head(x) # Head(y) THEN CodeUnit(Head(x)) < CodeUnit(Head(y))
    ELSE StringLess(Tail(x), Tail(y))

\* String([page, hashes]): the page, a comma and "[object Object]"
itemString(item) ==
    item.page \o <<",", "[", "o", "b", "j", "e", "c", "t", " ", "O", "b", "j", "e", "c", "t", "]">>

\* for (const [page, hashes] of perPageSriHashes): an index.html page is
\* pushed twice, first under its directory
RECURSIVE pagesToIterate(_)
pagesToIterate(perPageSriHashes) ==
    IF perPageSriHashes = <<>> THEN <<>>
    ELSE LET item == Head(perPageSriHashes)
         IN  (IF isIndexPage(item.page)
              THEN << [page |-> sliceIndexHtml(item.page), hashes |-> item.hashes], item >>
              ELSE << item >>)
             \o pagesToIterate(Tail(perPageSriHashes))

\* the place of an item in an array sorted without a compare function: the
\* items are ordered by their string value, equal ones in arrival order
RECURSIVE InsertByString(_, _)
InsertByString(sorted, item) ==
    IF sorted = <<>> THEN <<item>>
    ELSE IF StringLess(itemString(item), itemString(Head(sorted)))
    THEN <<item>> \o sorted
    ELSE <<Head(sorted)>> \o InsertByString(Tail(sorted), item)

\* pagesToIterate.sort()
RECURSIVE DefaultSort(_, _)
DefaultSort(items, sorted) ==
    IF items = <<>> THEN sorted
    ELSE DefaultSort(Tail(items), InsertByString(sorted, Head(items)))

\* One turn of the loop over the sorted pages: the entries of the page's
\* block and the options object after the turn.  `directives` IS the object
\* contentSecurityPolicy.cspDirectives when that is defined, so the
\* assignments land in it; otherwise it is a new object on every turn.
buildPage(item, opts) ==
    IF ~opts.enabled THEN [pathEntries |-> <<>>, opts |-> opts]
    ELSE LET directives0 == IF opts.defined THEN opts.cspDirectives ELSE NoDirectives
             directives1 == IF Cardinality(item.hashes.scripts) > 0
                            THEN setSrcDirective(directives0, "script-src", item.hashes.scripts)
                            ELSE MapSet(directives0, "script-src", <<"'none'">>)
             directives2 == IF Cardinality(item.hashes.styles) > 0
                            THEN setSrcDirective(directives1, "style-src", item.hashes.styles)
                            ELSE MapSet(directives1, "style-src", <<"'none'">>)
         IN  [pathEntries |-> << HeaderEntry("content-security-policy",
                                             serialiseCspDirectives(directives2)) >>,
              opts |-> IF opts.defined THEN [opts EXCEPT !.cspDirectives = directives2]
                       ELSE opts]

RECURSIVE buildLoop(_, _, _)
buildLoop(items, opts, entries) ==
    IF items = <<>> THEN [config |-> [indentWith |-> "\t", entries |-> entries], opts |-> opts]
    ELSE LET r == buildPage(Head(items), opts)
         IN  buildLoop(Tail(items), r.opts,
                       IF Len(r.pathEntries) > 0
                       THEN Append(entries,
                                   NetlifyPathHeaders(<<"/">> \o Head(items).page, r.pathEntries))
                       ELSE entries)

\* the config built and the options object after the call
buildNetlifyHeadersConfig(securityHeadersOptions, perPageSriHashes) ==
    buildLoop(DefaultSort(pagesToIterate(perPageSriHashes), <<>>), securityHeadersOptions, <<>>)

(***************************************************************************)
(* The build as a state machine: the static scan records the hashes of one *)
(* page after another, then the patch config is built from them.           *)
(***************************************************************************)
BuildPages ==
    { IndexHtml,
      <<"a", "/">> \o IndexHtml,
      <<"a", "/", "b", ".", "h", "t", "m", "l">>,
      <<"a", "/", "+", ".", "h", "t", "m", "l">> }

BuildHashSets ==
    { [scripts |-> {}, styles |-> {}],
      [scripts |-> {"sha256-a"}, styles |-> {}],
      [scripts |-> {"sha256-b"}, styles |-> {"sha256-c"}] }

InitBuild ==
    /\ mode = "build"
    /\ pc = "scan"
    /\ cspOpts \in CspConfigs
    /\ startupOpts = cspOpts
    /\ resourceHashes = <<>>
    /\ VercelIdle
    /\ ModuleIdle
    /\ plainHeaders = NoHeader /\ existing = <<>> /\ pageHashes = EmptyPageHashes
    /\ patched = NoPatch /\ requests = 0
    /\ base = NoConfig /\ patch = NoConfig /\ merged = NoConfig
    /\ ParseIdle
    /\ ScanIdle

\* perPageSriHashes.set(page, hashes) for a page not yet in the map
RecordPage(p, hashes) ==
    /\ mode = "build" /\ pc = "scan"
    /\ Len(resourceHashes) < MaxBuildPages
    /\ \A k \in 1..Len(resourceHashes) : resourceHashes[k].page # p
    /\ resourceHashes' = Append(resourceHashes, [page |-> p, hashes |-> hashes])
    /\ UNCHANGED <<vercelVars, moduleVars>>
    /\ UNCHANGED <<mode, pc, cspOpts, plainHeaders, existing, pageHashes, patched, requests>>
    /\ UNCHANGED <<base, patch, merged>>
    /\ UNCHANGED parseVars
    /\ UNCHANGED scanVars

\* patchConfig = buildNetlifyHeadersConfig(securityHeadersOptions, resourceHashes)
Build ==
    /\ mode = "build" /\ pc = "scan"
    /\ LET r == buildNetlifyHeadersConfig(cspOpts, resourceHashes)
       IN  /\ patch' = r.config
           /\ cspOpts' = r.opts
    /\ pc' = "built"
    /\ buildCall' = [buildCall EXCEPT !.optsBefore = cspOpts]
    /\ UNCHANGED <<mode, resourceHashes, plainHeaders, existing, pageHashes, patched, requests>>
    /\ UNCHANGED <<vercelBase, vercelPatch, vercelMerged, startupOpts, moduleVars>>
    /\ UNCHANGED <<base, merged>>
    /\ UNCHANGED parseVars
    /\ UNCHANGED scanVars

NextBuild ==
    \/ \E p \in BuildPages, hashes \in BuildHashSets : RecordPage(p, hashes)
    \/ Build

SpecBuild == InitBuild /\ [][NextBuild]_vars

(***************************************************************************)
(* vercel.mts: the routes built from the per-page hashes and their merge   *)
(* into the adapter's config.json.  A config is a function of its field    *)
(* names, a route one of its property names.                               *)
(***************************************************************************)
TrailingSlashes == {"never", "always", "ignore"}

\* 0 stands for undefined
indexSlashOffset(trailingSlash) ==
    IF trailingSlash = "never" THEN -11
    ELSE IF trailingSlash = "always" THEN -10
    ELSE 0

\* page.slice(0, offset) for a negative offset
sliceEnd(p, offset) ==
    IF Len(p) + offset > 0 THEN SubSeq(p, 1, Len(p) + offset) ELSE <<>>

\* an index.html page is pushed twice when the offset is defined
RECURSIVE vercelPagesToIterate(_, _)
vercelPagesToIterate(perPageSriHashes, offset) ==
    IF perPageSriHashes = <<>> THEN <<>>
    ELSE LET item == Head(perPageSriHashes)
         IN  (IF offset # 0 /\ isIndexPage(item.page)
              THEN << [page |-> sliceEnd(item.page, offset), hashes |-> item.hashes], item >>
              ELSE << item >>)
             \o vercelPagesToIterate(Tail(perPageSriHashes), offset)

\* One turn of the loop over the sorted pages: the headers of the page's
\* route and the options object after the turn.  As in the Netlify builder,
\* `directives` is the configured cspDirectives object when there is one.
vercelHeaders(item, opts) ==
    IF ~opts.enabled THEN [headers |-> NoDirectives, opts |-> opts]
    ELSE LET directives0 == IF opts.defined THEN opts.cspDirectives ELSE NoDirectives
             directives1 == IF Cardinality(item.hashes.scripts) > 0
                            THEN setSrcDirective(directives0, "script-src", item.hashes.scripts)
                            ELSE MapSet(directives0, "script-src", <<"'none'">>)
             directives2 == IF Cardinality(item.hashes.styles) > 0
                            THEN setSrcDirective(directives1, "style-src", item.hashes.styles)
                            ELSE MapSet(directives1, "style-src", <<"'none'">>)
         IN  [headers |-> ("content-security-policy" :> serialiseCspDirectives(directives2)),
              opts |-> IF opts.defined THEN [opts EXCEPT !.cspDirectives = directives2]
                       ELSE opts]

\* routes.push({ src: `/${page}`, headers })
vercelRoute(p, headers) == [src |-> <<"/">> \o p, headers |-> headers]

RECURSIVE vercelLoop(_, _, _)
vercelLoop(items, opts, routes) ==
    IF items = <<>> THEN [config |-> [version |-> 3, routes |-> routes], opts |-> opts]
    ELSE LET r == vercelHeaders(Head(items), opts)
         IN  vercelLoop(Tail(items), r.opts,
                        IF DOMAIN r.headers # {}
                        THEN Append(routes, vercelRoute(Head(items).page, r.headers))
                        ELSE routes)

\* the config built and the options object after the call
buildVercelConfig(trailingSlash, securityHeadersOptions, perPageSriHashes) ==
    vercelLoop(DefaultSort(vercelPagesToIterate(perPageSriHashes,
                                                indexSlashOffset(trailingSlash)), <<>>),
               securityHeadersOptions, <<>>)

\* base.routes ?? []
routesOf(config) == IF "routes" \in DOMAIN config THEN config.routes ELSE <<>>

\* { ...base, routes: [...(base.routes ?? []), ...(patch.routes ?? [])] }
mergeVercelConfig(baseConfig, patchConfig) ==
    [f \in DOMAIN baseConfig \cup {"routes"} |->
        IF f = "routes" THEN routesOf(baseConfig) \o routesOf(patchConfig)
        ELSE baseConfig[f]]

(***************************************************************************)
(* The Vercel patch as a state machine: the scan records the pages, the    *)
(* routes are built and merged into the config the adapter wrote.          *)
(***************************************************************************)
VercelBases ==
    { [version |-> 3],
      [version |-> 3, routes |-> <<>>],
      [version |-> 3,
       routes |-> << [src |-> <<"/", "a", "/", "(", ".", "*", ")">>, status |-> 404] >>],
      [version |-> 2, cache |-> <<"n">>,
       routes |-> << [handle |-> "filesystem"],
                     [src |-> <<"/", "a">>, status |-> 308, continue |-> TRUE] >>] }

InitVercel ==
    /\ mode = "vercel"
    /\ pc = "scan"
    /\ cspOpts \in CspConfigs
    /\ startupOpts = cspOpts
    /\ resourceHashes = <<>>
    /\ vercelBase \in VercelBases
    /\ vercelPatch = NoVercelConfig
    /\ vercelMerged = NoVercelConfig
    /\ buildCall = NoBuildCall
    /\ ModuleIdle
    /\ plainHeaders = NoHeader /\ existing = <<>> /\ pageHashes = EmptyPageHashes
    /\ patched = NoPatch /\ requests = 0
    /\ base = NoConfig /\ patch = NoConfig /\ merged = NoConfig
    /\ ParseIdle
    /\ ScanIdle

\* perPageSriHashes.set(page, hashes) for a page not yet in the map
RecordVercelPage(p, hashes) ==
    /\ mode = "vercel" /\ pc = "scan"
    /\ Len(resourceHashes) < MaxBuildPages
    /\ \A k \in 1..Len(resourceHashes) : resourceHashes[k].page # p
    /\ resourceHashes' = Append(resourceHashes, [page |-> p, hashes |-> hashes])
    /\ UNCHANGED <<vercelVars, moduleVars>>
    /\ UNCHANGED <<mode, pc, cspOpts, plainHeaders, existing, pageHashes, patched, requests>>
    /\ UNCHANGED <<base, patch, merged>>
    /\ UNCHANGED parseVars
    /\ UNCHANGED scanVars

\* patchConfig = buildVercelConfig(astroConfig, securityHeadersOptions, perPageSriHashes)
BuildVercel(trailingSlash) ==
    /\ mode = "vercel" /\ pc = "scan"
    /\ LET r == buildVercelConfig(trailingSlash, cspOpts, resourceHashes)
       IN  /\ vercelPatch' = r.config
           /\ cspOpts' = r.opts
    /\ buildCall' = [trailingSlash |-> trailingSlash, optsBefore |-> cspOpts]
    /\ pc' = "built"
    /\ UNCHANGED <<mode, resourceHashes, plainHeaders, existing, pageHashes, patched, requests>>
    /\ UNCHANGED <<vercelBase, vercelMerged, startupOpts, moduleVars>>
    /\ UNCHANGED <<base, patch, merged>>
    /\ UNCHANGED parseVars
    /\ UNCHANGED scanVars

\* mergedConfig = mergeVercelConfig(baseConfig, patchConfig)
MergeVercel ==
    /\ mode = "vercel" /\ pc = "built"
    /\ vercelMerged' = mergeVercelConfig(vercelBase, vercelPatch)
    /\ pc' = "merged"
    /\ UNCHANGED <<mode, cspOpts, resourceHashes, plainHeaders, existing, pageHashes,
                   patched, requests>>
    /\ UNCHANGED <<vercelBase, vercelPatch, buildCall, startupOpts, moduleVars>>
    /\ UNCHANGED <<base, patch, merged>>
    /\ UNCHANGED parseVars
    /\ UNCHANGED scanVars

NextVercel ==
    \/ \E p \in BuildPages, hashes \in BuildHashSets : RecordVercelPage(p, hashes)
    \/ \E trailingSlash \in TrailingSlashes : BuildVercel(trailingSlash)
    \/ MergeVercel

SpecVercel == InitVercel /\ [][NextVercel]_vars

\* both static header builders, each over the pages of its own build
NextHeaders ==
    \/ \E p \in BuildPages, hashes \in BuildHashSets : RecordPage(p, hashes)
    \/ Build
    \/ \E p \in BuildPages, hashes \in BuildHashSets : RecordVercelPage(p, hashes)
    \/ \E trailingSlash \in TrailingSlashes : BuildVercel(trailingSlash)
    \/ MergeVercel

SpecHeaders == (InitBuild \/ InitVercel) /\ [][NextHeaders]_vars

(***************************************************************************)
(* generateSRIHashesModule (core.mts).  A Set or Map of the collection is  *)
(* the sequence of its members in insertion order; a Record is the         *)
(* sequence of its [k, v] entries in key order of creation.  The strings   *)
(* hold no quote and no backslash, so the literal written for a string     *)
(* evaluates to that string when the module is imported.                   *)
(***************************************************************************)
Entry(k, v) == [k |-> k, v |-> v]

\* Object.keys(record)
Keys(record) == {record[i].k : i \in 1..Len(record)}

\* record[key], for a key of the record
Lookup(record, key) == record[Min({i \in 1..Len(record) : record[i].k = key})].v

arraysEqual(a, b) ==
    IF Len(a) # Len(b) THEN FALSE
    ELSE \A i \in 1..Len(a) : a[i] = b[i]

pageHashesEqual(a, b) ==
    IF ~arraysEqual(SortedArray(Keys(a)), SortedArray(Keys(b))) THEN FALSE
    ELSE \A i \in 1..Len(a) :
            /\ a[i].k \in Keys(b)
            /\ arraysEqual(a[i].v.scripts, Lookup(b, a[i].k).scripts)
            /\ arraysEqual(a[i].v.styles, Lookup(b, a[i].k).styles)

\* variant: the locators are compared, their hashes are not
sriHashesEqual_keysOnly(a, b) ==
    /\ Keys(a.scripts) = Keys(b.scripts)
    /\ Keys(a.styles) = Keys(b.styles)

sriHashesEqual(a, b) ==
    IF \/ ~arraysEqual(SortedArray(Keys(a.scripts)), SortedArray(Keys(b.scripts)))
       \/ ~arraysEqual(SortedArray(Keys(a.styles)), SortedArray(Keys(b.styles)))
    THEN FALSE
    ELSE /\ \A i \in 1..Len(a.scripts) : Lookup(b.scripts, a.scripts[i].k) = a.scripts[i].v
         /\ \A i \in 1..Len(a.styles) : Lookup(b.styles, a.styles[i].k) = a.styles[i].v

\* the sorted arrays and the records the function derives from the collection
sortedCollection(hc) ==
    [inlineScriptHashes |-> SortedArray(Range(hc.inlineScriptHashes)),
     inlineStyleHashes |-> SortedArray(Range(hc.inlineStyleHashes)),
     extScriptHashes |-> SortedArray(Range(hc.extScriptHashes)),
     extStyleHashes |-> SortedArray(Range(hc.extStyleHashes)),
     perPageSriHashes |->
        [i \in 1..Len(hc.perPageSriHashes) |->
            Entry(hc.perPageSriHashes[i].k,
                  [scripts |-> SortedArray(Range(hc.perPageSriHashes[i].v.scripts)),
                   styles |-> SortedArray(Range(hc.perPageSriHashes[i].v.styles))])],
     perResourceSriHashes |-> hc.perResourceSriHashes]

\* Object.entries(perPageHashes).sort(): by key (no key is a prefix of another)
RECURSIVE sortEntries(_)
sortEntries(record) ==
    IF record = <<>> THEN <<>>
    ELSE LET least == CHOOSE i \in 1..Len(record) :
                          \A j \in 1..Len(record) : Rank(record[i].k) <= Rank(record[j].k)
         IN  <<record[least]>> \o
             sortEntries([j \in 1..(Len(record) - 1) |->
                             IF j < least THEN record[j] ELSE record[j + 1]])

\* what the written file exports when it is imported
hashesFileContent(s) == [s EXCEPT !.perPageSriHashes = sortEntries(@)]

\* await import(sriHashesModule): a module is evaluated once per process; a
\* later import of the same path yields the module evaluated first
importModule(file, cache) == IF cache.exists THEN cache ELSE file

\* the call: the file and the module cache after it, and what it did
generateSRIHashesModule(hc, file, cache, enableMiddleware_SRI) ==
    LET s == sortedCollection(hc)
        hModule == importModule(file, cache).exports
        extResourceHashesChanged ==
            IF file.exists
            THEN ~sriHashesEqual(s.perResourceSriHashes, hModule.perResourceSriHashes)
            ELSE FALSE
        persistHashes ==
            IF file.exists
            THEN \/ extResourceHashesChanged
                 \/ ~arraysEqual(s.inlineScriptHashes, hModule.inlineScriptHashes)
                 \/ ~arraysEqual(s.inlineStyleHashes, hModule.inlineStyleHashes)
                 \/ ~arraysEqual(s.extScriptHashes, hModule.extScriptHashes)
                 \/ ~arraysEqual(s.extStyleHashes, hModule.extStyleHashes)
                 \/ ~pageHashesEqual(s.perPageSriHashes, hModule.perPageSriHashes)
            ELSE TRUE
    IN  [file |-> IF persistHashes
                  THEN [exists |-> TRUE, exports |-> hashesFileContent(s)]
                  ELSE file,
         cache |-> IF file.exists THEN importModule(file, cache) ELSE cache,
         warned |-> persistHashes /\ extResourceHashesChanged /\ enableMiddleware_SRI,
         wrote |-> persistHashes]

(***************************************************************************)
(* Persistence as a state machine: a build process collects hashes, calls  *)
(* generateSRIHashesModule (the middleware plugin with a provisional       *)
(* collection, processStaticFiles with the full one), and the next build   *)
(* is a new process that finds the file the previous one left.             *)
(***************************************************************************)
HashArrayNames ==
    {"inlineScriptHashes", "inlineStyleHashes", "extScriptHashes", "extStyleHashes"}

\* the hashes the builds add to the four sets
ModuleHashInputs ==
    {<<name, "sha256-a">> : name \in HashArrayNames} \cup {<<"inlineScriptHashes", "sha256-b">>}

\* the locators the builds cache, with their hashes
ModuleResourceInputs ==
    {<<"scripts", "/a.js", "sha256-a">>, <<"scripts", "/a.js", "sha256-b">>,
     <<"scripts", "/b.js", "sha256-a">>, <<"styles", "/a.js", "sha256-a">>}

\* the pages the builds scan, with their hashes
ModulePageInputs ==
    {<<"a.html", [scripts |-> <<"sha256-b", "sha256-a">>, styles |-> <<>>]>>,
     <<"a.html", [scripts |-> <<>>, styles |-> <<"sha256-a">>]>>,
     <<"b.html", [scripts |-> <<"sha256-a">>, styles |-> <<>>]>>}

\* the number of members the collection holds
CollectedSize(hc) ==
    Len(hc.inlineScriptHashes) + Len(hc.inlineStyleHashes) + Len(hc.extScriptHashes)
    + Len(hc.extStyleHashes) + Len(hc.perPageSriHashes)
    + Len(hc.perResourceSriHashes.scripts) + Len(hc.perResourceSriHashes.styles)

InitModule ==
    /\ mode = "module"
    /\ pc = "load"
    /\ ModuleIdle
    /\ CspIdle
    /\ VercelIdle
    /\ base = NoConfig /\ patch = NoConfig /\ merged = NoConfig
    /\ ParseIdle
    /\ resourceHashes = <<>>
    /\ ScanIdle

\* h.inlineScriptHashes.add(hash), ...
CollectHash(name, hash) ==
    /\ mode = "module" /\ pc \in {"load", "scan"}
    /\ ~persistLog.sameInputs
    /\ CollectedSize(collected) < MaxCollected
    /\ hash \notin Range(collected[name])
    /\ collected' = [collected EXCEPT ![name] = Append(@, hash)]
    /\ UNCHANGED <<mode, pc, hashesModule, imported, persistLog>>
    /\ UNCHANGED <<base, patch, merged, parseVars, resourceHashes, vercelVars>>
    /\ UNCHANGED <<scanVars, cspVars>>

\* h.perResourceSriHashes[t2].set(src, hash) for a locator not yet cached
CollectResource(t2, src, hash) ==
    /\ mode = "module" /\ pc \in {"load", "scan"}
    /\ ~persistLog.sameInputs
    /\ CollectedSize(collected) < MaxCollected
    /\ src \notin Keys(collected.perResourceSriHashes[t2])
    /\ collected' = [collected EXCEPT !.perResourceSriHashes[t2] = Append(@, Entry(src, hash))]
    /\ UNCHANGED <<mode, pc, hashesModule, imported, persistLog>>
    /\ UNCHANGED <<base, patch, merged, parseVars, resourceHashes, vercelVars>>
    /\ UNCHANGED <<scanVars, cspVars>>

\* h.perPageSriHashes.set(relativeFilepath, pageHashes)
CollectPage(relativeFilepath, hashes) ==
    /\ mode = "module" /\ pc \in {"load", "scan"}
    /\ ~persistLog.sameInputs
    /\ CollectedSize(collected) < MaxCollected
    /\ relativeFilepath \notin Keys(collected.perPageSriHashes)
    /\ collected' = [collected EXCEPT !.perPageSriHashes = Append(@, Entry(relativeFilepath, hashes))]
    /\ UNCHANGED <<mode, pc, hashesModule, imported, persistLog>>
    /\ UNCHANGED <<base, patch, merged, parseVars, resourceHashes, vercelVars>>
    /\ UNCHANGED <<scanVars, cspVars>>

\* what a call of generateSRIHashesModule leaves in the log
CallRecord(enableMiddleware_SRI, r) ==
    [collection |-> collected,
     enableMiddleware |-> enableMiddleware_SRI,
     fileBefore |-> hashesModule,
     compared |-> importModule(hashesModule, imported),
     warned |-> r.warned,
     wrote |-> r.wrote]

\* loadVirtualMiddlewareModule: the module is imported when its file exists
\* and a provisional one is generated, without warnings, when the file is
\* missing or lacks a script of the allow-list.  The collection at this
\* point holds the allow-listed and the public resources; which of its
\* scripts are allow-listed is left open.
LoadVirtualMiddlewareModule(shouldRegenerateHashesModule) ==
    /\ mode = "module" /\ pc = "load"
    /\ LET loaded == IF hashesModule.exists THEN importModule(hashesModule, imported)
                     ELSE imported
           r == generateSRIHashesModule(collected, hashesModule, loaded, FALSE)
       IN  /\ ~hashesModule.exists => shouldRegenerateHashesModule
           /\ (hashesModule.exists /\ shouldRegenerateHashesModule) =>
                 \E k \in Keys(collected.perResourceSriHashes.scripts) :
                     k \notin Keys(loaded.exports.perResourceSriHashes.scripts)
           /\ IF shouldRegenerateHashesModule
              THEN /\ hashesModule' = r.file
                   /\ imported' = r.cache
                   /\ persistLog' = [persistLog EXCEPT !.history =
                                        Append(@, CallRecord(FALSE, r))]
              ELSE /\ imported' = loaded
                   /\ UNCHANGED <<hashesModule, persistLog>>
    /\ pc' = "scan"
    /\ UNCHANGED <<mode, collected>>
    /\ UNCHANGED <<base, patch, merged, parseVars, resourceHashes, vercelVars>>
    /\ UNCHANGED <<scanVars, cspVars>>

\* processStaticFiles: generateSRIHashesModule with the collection of the scan
ProcessStaticFiles(enableMiddleware_SRI) ==
    /\ mode = "module" /\ pc = "scan"
    /\ LET r == generateSRIHashesModule(collected, hashesModule, imported, enableMiddleware_SRI)
       IN  /\ hashesModule' = r.file
           /\ imported' = r.cache
           /\ persistLog' = [persistLog EXCEPT !.history =
                                Append(@, CallRecord(enableMiddleware_SRI, r))]
    /\ pc' = "done"
    /\ UNCHANGED <<mode, collected>>
    /\ UNCHANGED <<base, patch, merged, parseVars, resourceHashes, vercelVars>>
    /\ UNCHANGED <<scanVars, cspVars>>

\* the same members, inserted in the opposite order
ReverseCollection(hc) ==
    [inlineScriptHashes |-> Reverse(hc.inlineScriptHashes),
     inlineStyleHashes |-> Reverse(hc.inlineStyleHashes),
     extScriptHashes |-> Reverse(hc.extScriptHashes),
     extStyleHashes |-> Reverse(hc.extStyleHashes),
     perPageSriHashes |->
        Reverse([i \in 1..Len(hc.perPageSriHashes) |->
                    Entry(hc.perPageSriHashes[i].k,
                          [scripts |-> Reverse(hc.perPageSriHashes[i].v.scripts),
                           styles |-> Reverse(hc.perPageSriHashes[i].v.styles)])]),
     perResourceSriHashes |->
        [scripts |-> Reverse(hc.perResourceSriHashes.scripts),
         styles |-> Reverse(hc.perResourceSriHashes.styles)]]

\* the next build, a new process, over unchanged inputs: the collection
\* holds the same members, found in the same or in another order
RebuildUnchanged(reversed) ==
    /\ mode = "module" /\ pc = "done"
    /\ persistLog.process < MaxProcesses
    /\ collected' = IF reversed THEN ReverseCollection(collected) ELSE collected
    /\ imported' = NoModule
    /\ persistLog' = [process |-> persistLog.process + 1, sameInputs |-> TRUE, history |-> <<>>]
    /\ pc' = "load"
    /\ UNCHANGED <<mode, hashesModule>>
    /\ UNCHANGED <<base, patch, merged, parseVars, resourceHashes, vercelVars>>
    /\ UNCHANGED <<scanVars, cspVars>>

\* the next build, a new process, over other inputs
RebuildChanged ==
    /\ mode = "module" /\ pc = "done"
    /\ persistLog.process < MaxProcesses
    /\ collected' = EmptyExports
    /\ imported' = NoModule
    /\ persistLog' = [process |-> persistLog.process + 1, sameInputs |-> FALSE, history |-> <<>>]
    /\ pc' = "load"
    /\ UNCHANGED <<mode, hashesModule>>
    /\ UNCHANGED <<base, patch, merged, parseVars, resourceHashes, vercelVars>>
    /\ UNCHANGED <<scanVars, cspVars>>

NextModule ==
    \/ \E i \in ModuleHashInputs : CollectHash(i[1], i[2])
    \/ \E i \in ModuleResourceInputs : CollectResource(i[1], i[2], i[3])
    \/ \E i \in ModulePageInputs : CollectPage(i[1], i[2])
    \/ \E regenerate \in BOOLEAN : LoadVirtualMiddlewareModule(regenerate)
    \/ \E mw \in BOOLEAN : ProcessStaticFiles(mw)
    \/ \E reversed \in BOOLEAN : RebuildUnchanged(reversed)
    \/ RebuildChanged

SpecModule == InitModule /\ [][NextModule]_vars

(***************************************************************************)
(* Vocabulary of the properties below                                      *)
(***************************************************************************)
DynamicDone == mode = "dynamic" /\ pc = "done"
StaticDone == mode = "static" /\ pc = "done"

TypeOf(el) == IF el.tag = "script" THEN "scripts" ELSE "styles"

SourceOf(el) ==
    LET names == CASE el.tag = "script" -> {"src"}
                   [] el.tag = "style" -> {"href", "src"}
                   [] OTHER -> {"href"}
    IN  srcMatch(el.attrs, names).src

\* a script, a style or a stylesheet link
IsScannedElem(el) ==
    \/ el.tag \in {"script", "style"}
    \/ el.tag = "link" /\ Attr("rel", <<"stylesheet">>) \in Range(el.attrs)

HasIntegrityAttr(el) == \E k \in 1..Len(el.attrs) : el.attrs[k].n = "integrity"

GivenIntegrity(el) == extractIntegrityHash(el.attrs)

\* http://..., https://... or //...
IsCrossOriginUrl(src) ==
    /\ Len(src) >= 2
    /\ \/ src[1] = "//"
       \/ src[1] \in {"http:", "https:"} /\ src[2] = "//"

\* a '/'-rooted path on this origin
IsLocalPath(src) == Len(src) >= 1 /\ src[1] = "/"

WarningsFor(i) ==
    Cardinality({k \in 1..Len(result.warnings) : result.warnings[k].idx = i})

HashesFrom(i) == {c \in result.contrib : c[1] = i}

Slots == 1..Len(content)

(***************************************************************************)
(* C1: in dynamic mode every script, style or stylesheet-link element      *)
(* whose source is a cross-origin URL that is not a key of the global      *)
(* table for its type, with or without an integrity attribute, is removed  *)
(* from the returned document, gets exactly one warning and adds no hash   *)
(* to the returned page hash set.                                          *)
(***************************************************************************)
C1_Case(i) ==
    /\ IsScannedElem(content[i])
    /\ IsCrossOriginUrl(SourceOf(content[i]))
    /\ SourceOf(content[i]) \notin DOMAIN globalHashes[TypeOf(content[i])]

C2_Case(i) ==
    /\ IsScannedElem(content[i])
    /\ SourceOf(content[i]) \in DOMAIN globalHashes[TypeOf(content[i])]
    /\ GivenIntegrity(content[i]) # Undefined
    /\ GivenIntegrity(content[i]) # globalHashes[TypeOf(content[i])][SourceOf(content[i])]

C3_Case(el) ==
    /\ el.tag \in {"script", "style"}
    /\ SourceOf(el) # <<>>
    /\ el.content # ""

WithoutSrcAndContent(doc) == SelectSeq(doc, LAMBDA el : ~C3_Case(el))

C4_Case(el) ==
    /\ el.tag \in {"script", "style"}
    /\ SourceOf(el) = <<>>
    /\ GivenIntegrity(el) = Undefined

PolicyOf(el) ==
    IF el.tag = "script" THEN sri.allowInlineScripts ELSE sri.allowInlineStyles

C4_Allowed(el) ==
    IF mode = "static" THEN PolicyOf(el) \in {"all", "static"} ELSE PolicyOf(el) = "all"

C4_Hashed(el) ==
    Elem(el.tag, el.attrs \o <<Attr("integrity", <<"sha256-" \o el.content>>)>>,
         GetSubstitution(el.content))

C6_Case(i) ==
    /\ IsScannedElem(content[i])
    /\ ~HasIntegrityAttr(content[i])
    /\ IsLocalPath(SourceOf(content[i]))
    /\ SourceOf(content[i]) \notin DOMAIN globalHashes[TypeOf(content[i])]

IsDevPath(src) ==
    \/ src[2] \in {"@vite/", "@fs/"}
    \/ "?astro&type=" \in Range(src)

C6_Untouched(i) ==
    /\ result.updatedContent[i] = content[i]
    /\ HashesFrom(i) = {}
    /\ WarningsFor(i) = IF IsDevPath(SourceOf(content[i])) THEN 0 ELSE 1

C6_Original_LocalMissUntouched ==
    DynamicDone => \A i \in Slots : C6_Case(i) => C6_Untouched(i)

(***************************************************************************)
(* C6 amended: the same, for elements that have no inline content (an      *)
(* element with both a source and inline content is removed, see C3).      *)
(***************************************************************************)
C6_LocalMissWithoutContentUntouched ==
    DynamicDone =>
        \A i \in Slots :
            (C6_Case(i) /\ content[i].content = "") => C6_Untouched(i)

C6_Witness ==
    /\ DynamicDone
    /\ \E i, j \in Slots :
        /\ C6_Case(i) /\ content[i].content = ""
        /\ ~IsDevPath(SourceOf(content[i]))
        /\ C6_Case(j) /\ content[j].content = ""
        /\ IsDevPath(SourceOf(content[j]))
        /\ result.updatedContent = content
        /\ Len(result.warnings) = 1

(***************************************************************************)
(* Reading a Content-Security-Policy header text                           *)
(***************************************************************************)
CspPatched == mode = "csp" /\ requests > 0 /\ cspOpts.enabled

\* position k starts a directive
StartsDirective(tokens, k) ==
    k = 1 \/ (k > 2 /\ tokens[k - 1] = " " /\ tokens[k - 2] = ";")

\* the header text holds the directive `name value`
HeaderHas(tokens, name, value) ==
    \E k \in 1..Len(tokens) :
        /\ StartsDirective(tokens, k)
        /\ tokens[k] = name
        /\ k + 1 + Len(value) <= Len(tokens)
        /\ SubSeq(tokens, k + 1, k + 1 + Len(value)) = <<" ">> \o value
        /\ \/ k + 1 + Len(value) = Len(tokens)
           \/ tokens[k + 2 + Len(value)] = ";"

Occurrences(tokens, name) ==
    Cardinality({k \in 1..Len(tokens) : StartsDirective(tokens, k) /\ tokens[k] = name})

ExistingNames == IF plainHeaders.has THEN {existing[k].name : k \in 1..Len(existing)} ELSE {}

ExistingValue(name) ==
    existing[CHOOSE k \in 1..Len(existing) : existing[k].name = name].value

HashesOf(srcType) == IF srcType = "script-src" THEN pageHashes.scripts ELSE pageHashes.styles

SrcTypes == {"script-src", "style-src"}

(***************************************************************************)
(* C7: whatever the configured directives and the existing header, an      *)
(* empty script (style) hash set gives a policy that contains script-src   *)
(* (style-src) exactly once, with the value 'none' and nothing else.       *)
(***************************************************************************)
C7_EmptyCategoryIsNone ==
    CspPatched =>
        \A srcType \in SrcTypes :
            HashesOf(srcType) = {} =>
                /\ patched.headers.has
                /\ HeaderHas(patched.headers.csp, srcType, <<"'none'">>)
                /\ Occurrences(patched.headers.csp, srcType) = 1

C7_Witness ==
    /\ CspPatched
    /\ pageHashes.scripts = {}
    /\ "script-src" \in DOMAIN patched.optsBefore
    /\ "script-src" \in ExistingNames
    /\ HeaderHas(patched.headers.csp, "script-src", <<"'none'">>)

(***************************************************************************)
(* C8 as stated: a non-empty hash set gives the directive the value 'self' *)
(* followed by the page's hashes, quoted and sorted, whatever the          *)
(* configured directives and the existing header.                          *)
(***************************************************************************)
SelfAndHashes(hashes) == <<"'self'", " ">> \o JoinWithSpace(QuoteAll(SortedArray(hashes)))

BaseSrcDirective(srcType) ==
    IF srcType \in ExistingNames THEN ExistingValue(srcType)
    ELSE IF srcType \in DOMAIN patched.optsBefore THEN patched.optsBefore[srcType]
    ELSE <<>>

SourcesOf(value) == Range(value) \ {" "}

C8_ExpectedSrcDirective(srcType) ==
    IF BaseSrcDirective(srcType) = <<>>
    THEN SelfAndHashes(HashesOf(srcType))
    ELSE JoinWithSpace(SortedArray(SourcesOf(BaseSrcDirective(srcType))
                                   \cup {Quote(x) : x \in HashesOf(srcType)}))

C9_Precedence ==
    CspPatched =>
        \A name \in (ExistingNames \cup DOMAIN cspOpts.cspDirectives) \ SrcTypes :
            /\ Occurrences(patched.headers.csp, name) = 1
            /\ HeaderHas(patched.headers.csp, name,
                         IF name \in ExistingNames THEN ExistingValue(name)
                         ELSE cspOpts.cspDirectives[name])

C9_Witness ==
    /\ CspPatched
    /\ DOMAIN cspOpts.cspDirectives = {"form-action", "base-uri"}
    /\ cspOpts.cspDirectives["form-action"] = <<"'self'">>
    /\ cspOpts.cspDirectives["base-uri"] = <<"'self'">>
    /\ "form-action" \in ExistingNames
    /\ "base-uri" \notin ExistingNames
    /\ HeaderHas(patched.headers.csp, "form-action", <<"'none'">>)
    /\ HeaderHas(patched.headers.csp, "base-uri", <<"'self'">>)


(***************************************************************************)
(* Vocabulary of the Netlify merge properties                              *)
(***************************************************************************)
Merged == mode = "netlify" /\ pc = "merged"

BlocksFor(config, p) ==
    SelectSeq(config.entries, LAMBDA e : e.kind = "path" /\ e.path = p)

HeadersNamed(entries, n) ==
    SelectSeq(entries, LAMBDA e : e.kind = "header" /\ e.headerName = n)

HeaderNames(entries) ==
    {entries[k].headerName : k \in {j \in 1..Len(entries) : entries[j].kind = "header"}}

\* the config is made of path blocks only, one per path, each holding header
\* entries only, no two with the same name
PlainConfig(config) ==
    /\ \A k \in 1..Len(config.entries) :
          /\ config.entries[k].kind = "path"
          /\ \A j \in 1..Len(config.entries[k].entries) :
                config.entries[k].entries[j].kind = "header"
          /\ \A n \in HeaderNames(config.entries[k].entries) :
                Len(HeadersNamed(config.entries[k].entries, n)) = 1
    /\ \A p \in NetlifyPaths : Len(BlocksFor(config, p)) <= 1

\* the header entries are in ascending order of header name
SortedByName(entries) ==
    \A j \in 1..Len(entries) - 1 :
        entries[j].kind = "header" /\ entries[j + 1].kind = "header"
            => Rank(entries[j].headerName) < Rank(entries[j + 1].headerName)

PatchOverrides(p) ==
    /\ Len(BlocksFor(merged, p)) = 1
    /\ \A n \in HeaderNames(BlocksFor(patch, p)[1].entries) :
          HeadersNamed(BlocksFor(merged, p)[1].entries, n)
              = HeadersNamed(BlocksFor(patch, p)[1].entries, n)

\* C10: when a path has a block in both the base and the patch config, the
\* merged block for that path holds, for every header name of the patch block,
\* the patch entry with that name and no base entry with that name, whatever
\* the order of the header entries of the base block (the patch block is
\* sorted by header name, as buildNetlifyHeadersConfig builds it).
C10_PatchEntryOverridesBase ==
    (Merged /\ PlainConfig(base) /\ PlainConfig(patch)) =>
        \A p \in NetlifyPaths :
            (/\ BlocksFor(base, p) # <<>> /\ BlocksFor(patch, p) # <<>>
             /\ SortedByName(BlocksFor(patch, p)[1].entries)) =>
                PatchOverrides(p)

\* the base block lists X-Frame-Options before Cache-Control: the base
\* Cache-Control entry survives next to the patch's
C10_Unsorted ==
    /\ Merged
    /\ base.entries = << NetlifyPathHeaders("/a.html",
                            << HeaderEntry("X-Frame-Options", "DENY"),
                               HeaderEntry("Cache-Control", "no-cache") >>) >>
    /\ patch.entries = << NetlifyPathHeaders("/a.html",
                            << HeaderEntry("Cache-Control", "no-store") >>) >>
    /\ merged.entries = << NetlifyPathHeaders("/a.html",
                            << HeaderEntry("Cache-Control", "no-store"),
                               HeaderEntry("X-Frame-Options", "DENY"),
                               HeaderEntry("Cache-Control", "no-cache") >>) >>

\* the override does hold when the header entries of the base block are
\* sorted by name as well
SortedBaseOverridden ==
    (Merged /\ PlainConfig(base) /\ PlainConfig(patch)) =>
        \A p \in NetlifyPaths :
            (/\ BlocksFor(base, p) # <<>> /\ BlocksFor(patch, p) # <<>>
             /\ SortedByName(BlocksFor(base, p)[1].entries)
             /\ SortedByName(BlocksFor(patch, p)[1].entries)) =>
                PatchOverrides(p)


\* each path has at most one block in the config
OneBlockPerPath(config) == \A p \in NetlifyPaths : Len(BlocksFor(config, p)) <= 1

SharedPaths == {p \in NetlifyPaths : BlocksFor(base, p) # <<>> /\ BlocksFor(patch, p) # <<>>}

\* every path block of the config holds at least one header entry
HeadersInEveryBlock(config) ==
    \A k \in 1..Len(config.entries) :
        config.entries[k].kind = "path" => HeaderNames(config.entries[k].entries) # {}

\* C11: when each path has at most one block in the base and in the patch
\* (every block holding a header), every path with a block in both yields
\* exactly one block in the result, holding the merge of the two blocks'
\* entries, also when the base has top-level comments or blank lines and
\* whatever the order of its blocks.
C11_SharedPathOneMergedBlock ==
    (Merged /\ OneBlockPerPath(base) /\ OneBlockPerPath(patch)
        /\ HeadersInEveryBlock(base) /\ HeadersInEveryBlock(patch)) =>
        \A p \in SharedPaths :
            /\ Len(BlocksFor(merged, p)) = 1
            /\ BlocksFor(merged, p)[1].entries
                   = mergeNetlifyPathHeaders(BlocksFor(base, p)[1].entries,
                                             BlocksFor(patch, p)[1].entries)

\* a comment above the base block: the patch block is emitted on its own and
\* the base block follows, unmerged
C11_CommentBeforeBlock ==
    /\ Merged
    /\ base.entries = << CommentEntry("# top"),
                         NetlifyPathHeaders("/a.html",
                            << HeaderEntry("Cache-Control", "no-cache") >>) >>
    /\ patch.entries = << NetlifyPathHeaders("/a.html",
                            << HeaderEntry("Cache-Control", "no-store") >>) >>
    /\ merged.entries = << NetlifyPathHeaders("/a.html",
                              << HeaderEntry("Cache-Control", "no-store") >>),
                           CommentEntry("# top"),
                           NetlifyPathHeaders("/a.html",
                              << HeaderEntry("Cache-Control", "no-cache") >>) >>

\* without top-level comments and blank lines in either input the blocks are
\* matched by path, whatever the order of the blocks
BlocksOnly(config) == \A k \in 1..Len(config.entries) : config.entries[k].kind = "path"

BlocksOnlyMatchedByPath ==
    (Merged /\ OneBlockPerPath(base) /\ OneBlockPerPath(patch)
        /\ BlocksOnly(base) /\ BlocksOnly(patch)) =>
        \A p \in SharedPaths :
            /\ Len(BlocksFor(merged, p)) = 1
            /\ BlocksFor(merged, p)[1].entries
                   = mergeNetlifyPathHeaders(BlocksFor(base, p)[1].entries,
                                             BlocksFor(patch, p)[1].entries)


\* a is b with some elements left out
RECURSIVE IsSubseq(_, _)
IsSubseq(a, b) ==
    IF a = <<>> THEN TRUE
    ELSE IF b = <<>> THEN FALSE
    ELSE IF Head(a) = Head(b) THEN IsSubseq(Tail(a), Tail(b))
    ELSE IsSubseq(a, Tail(b))

\* what the claim says is kept of the top level of an input: its comments and
\* blank lines (base only) and its blocks, holding an entry, whose path the
\* other input lacks
UnmatchedOf(entries, other, withComments) ==
    SelectSeq(entries,
              LAMBDA e : IF e.kind = "path"
                         THEN e.entries # <<>> /\ BlocksFor(other, e.path) = <<>>
                         ELSE withComments)

\* the header entries of a block whose name the other block lacks
OnlyIn(entries, otherEntries) ==
    SelectSeq(entries, LAMBDA e : e.kind = "header" /\ e.headerName \notin HeaderNames(otherEntries))

\* within a shared path the header entries that only one block names are in
\* a block of that path in the result, in their order
SharedPathKeepsUnmatched ==
    (OneBlockPerPath(base) /\ OneBlockPerPath(patch)) =>
        \A p \in SharedPaths :
            LET b == BlocksFor(base, p)[1].entries
                q == BlocksFor(patch, p)[1].entries
                ms == BlocksFor(merged, p)
            IN  /\ OnlyIn(b, q) # <<>> =>
                      \E k \in 1..Len(ms) : IsSubseq(OnlyIn(b, q), ms[k].entries)
                /\ OnlyIn(q, b) # <<>> =>
                      \E k \in 1..Len(ms) : IsSubseq(OnlyIn(q, b), ms[k].entries)

C12_BlocksReordered ==
    /\ Merged
    /\ Len(base.entries) = 2 /\ BlocksOnly(base) /\ HeadersInEveryBlock(base)
    /\ base.entries[1].path = "/b.html" /\ base.entries[2].path = "/a.html"
    /\ patch.entries = <<>>
    /\ merged.entries = << base.entries[2], base.entries[1] >>


\* C13: the result holds no path block without entries (a fortiori none
\* without header entries), wherever such a block stands in the base or the
\* patch and also when the merged entries of a shared path are empty.
C13_NoEmptyBlockInResult ==
    Merged =>
        \A k \in 1..Len(merged.entries) :
            merged.entries[k].kind = "path" => merged.entries[k].entries # <<>>

\* an empty base block that is still to come when the patch is exhausted is
\* appended as it is
C13_EmptyBlockInRemainder ==
    /\ Merged
    /\ base.entries = << NetlifyPathHeaders("/b.html", <<>>) >>
    /\ patch.entries = << NetlifyPathHeaders("/a.html",
                             << HeaderEntry("Cache-Control", "no-store") >>) >>
    /\ merged.entries = << NetlifyPathHeaders("/a.html",
                              << HeaderEntry("Cache-Control", "no-store") >>),
                           NetlifyPathHeaders("/b.html", <<>>) >>

\* an empty block that the loop meets while the other input still has a
\* block with a greater path is dropped
EmptyBlockDroppedInLoop ==
    (/\ Merged /\ BlocksOnly(base) /\ BlocksOnly(patch)
     /\ Len(base.entries) = 1 /\ Len(patch.entries) = 1
     /\ base.entries[1].entries = <<>> /\ patch.entries[1].entries # <<>>
     /\ Rank(base.entries[1].path) < Rank(patch.entries[1].path)) =>
        merged.entries = patch.entries


(***************************************************************************)
(* Vocabulary of the parser properties                                     *)
(***************************************************************************)
\* the text being parsed is the serialisation of cfg
Serialized == mode = "parse" /\ cfg # NoConfig /\ pc \in {"parse", "threw", "returned"}

\* every path block of the config holds at least one entry
NoEmptyBlock(config) ==
    \A k \in 1..Len(config.entries) :
        config.entries[k].kind = "path" => config.entries[k].entries # <<>>

HasBlock(config) == \E k \in 1..Len(config.entries) : config.entries[k].kind = "path"

\* no header value of the config starts with whitespace
NoLeadingSpaceInValues(config) ==
    \A k \in 1..Len(config.entries) :
        config.entries[k].kind = "path" =>
            \A j \in 1..Len(config.entries[k].entries) :
                config.entries[k].entries[j].kind = "header" =>
                    LeadingSpaces(Chars(config.entries[k].entries[j].value)) = 0

\* C14 as stated: for every config of blank lines, comments and path blocks
\* that each hold an entry, parsing its serialisation does not fail and gives
\* the config back: same indentWith, same entries in the same order.
C14_Original_RoundTrip ==
    (Serialized /\ NoEmptyBlock(cfg)) =>
        /\ pc # "threw"
        /\ pc = "returned" => parsed = cfg

\* C14 amended: the same for the configs that have a path block or the
\* indentWith "\t", and whose header values do not start with whitespace.
C14_RoundTrip ==
    (/\ Serialized /\ NoEmptyBlock(cfg)
     /\ HasBlock(cfg) \/ cfg.indentWith = "\t"
     /\ NoLeadingSpaceInValues(cfg)) =>
        /\ pc # "threw"
        /\ pc = "returned" => parsed = cfg

C14_Witness ==
    /\ Serialized /\ pc = "returned"
    /\ cfg = [indentWith |-> "  ",
              entries |-> << CommentEntry("# top"),
                             NetlifyPathHeaders("/a.html",
                                << HeaderEntry("Cache-Control", "no-cache") >>) >>]
    /\ text = << <<"# top">>, <<"/a.html">>,
                 <<" ", " ", "Cache-Control", ":", " ", "no-cache">>, <<>> >>
    /\ parsed = cfg

\* a config of comments only comes back with the indentation "\t"
C14_IndentNotInText ==
    /\ Serialized /\ pc = "returned"
    /\ cfg = [indentWith |-> "  ", entries |-> << CommentEntry("# top") >>]
    /\ parsed = [indentWith |-> "\t", entries |-> << CommentEntry("# top") >>]

\* a header value that starts with a space comes back without it
C14_ValueTrimmed ==
    /\ Serialized /\ pc = "returned"
    /\ cfg.entries = << NetlifyPathHeaders("/a.html",
                           << HeaderEntry("Cache-Control", " no-cache") >>) >>
    /\ parsed.entries = << NetlifyPathHeaders("/a.html",
                              << HeaderEntry("Cache-Control", "no-cache") >>) >>


\* the line is none of: blank (or whitespace only), comment, path line,
\* `Name: value` line, whatever the block it stands in and its indentation
Unparseable(line) ==
    /\ LeadingSpaces(line) < Len(line)
    /\ ~commentRegex(line).ok
    /\ ~headerRegex(line).ok
    /\ line[1] \notin SlashWords

\* C15: parseNetlifyHeadersConfig returns no config for a text that holds
\* an unparseable line; no such line is skipped.
C15_UnparseableLineFails ==
    (mode = "parse" /\ pc = "returned") =>
        \A k \in 1..Len(text) : ~Unparseable(text[k])

\* an indented line that is neither a comment nor a header, inside a block,
\* is skipped and the config is returned without it
C15_IndentedGarbageSkipped ==
    /\ mode = "parse" /\ pc = "returned"
    /\ text = << <<"/a.html">>, <<"\t", "Cache-Control", ":", " ", "no-cache">>,
                 <<"\t", "garbage">> >>
    /\ parsed = [indentWith |-> "\t",
                 entries |-> << NetlifyPathHeaders("/a.html",
                                   << HeaderEntry("Cache-Control", "no-cache") >>) >>]

\* an unparseable line that does not start with whitespace is never skipped
UnindentedGarbageFails ==
    (mode = "parse" /\ pc = "returned") =>
        \A k \in 1..Len(text) : Unparseable(text[k]) => netlifySpacesRegex(text[k])


(***************************************************************************)
(* Vocabulary of the build properties                                      *)
(***************************************************************************)
Built == mode = "build" /\ pc = "built" /\ cspOpts.enabled

BuiltBlocksAt(path) == SelectSeq(patch.entries, LAMBDA e : e.path = path)

RecordedPages == {resourceHashes[k].page : k \in 1..Len(resourceHashes)}

OneBlockPerPage ==
    /\ \A p \in RecordedPages : Len(BuiltBlocksAt(<<"/">> \o p)) = 1
    /\ \A p \in RecordedPages :
          isIndexPage(p) => Len(BuiltBlocksAt(<<"/">> \o sliceIndexHtml(p))) = 1

DirectoryBlockSameAsIndex ==
    \A p \in RecordedPages :
        isIndexPage(p) =>
            \A d \in 1..Len(BuiltBlocksAt(<<"/">> \o sliceIndexHtml(p))),
               i \in 1..Len(BuiltBlocksAt(<<"/">> \o p)) :
                BuiltBlocksAt(<<"/">> \o sliceIndexHtml(p))[d].entries
                    = BuiltBlocksAt(<<"/">> \o p)[i].entries

AscendingPaths ==
    \A k \in 1..Len(patch.entries) - 1 :
        StringLess(patch.entries[k].path, patch.entries[k + 1].path)

\* C16: with a content security policy configured, the built config has one
\* block at '/<page>' for every page and, for every index.html page, one
\* more at the directory path with identical header entries; the blocks are
\* in ascending lexical order of path, whatever the insertion order.
C16_BlockPerPageSorted ==
    Built => OneBlockPerPage /\ DirectoryBlockSameAsIndex /\ AscendingPaths

\* the directives object of the options is shared by all pages: the hash of
\* a/b.html, built between a/ and a/index.html, is in the index.html block
\* and not in the directory block
C16_DirectoryBlockDiffers ==
    /\ Built
    /\ resourceHashes = << [page |-> <<"a", "/">> \o IndexHtml,
                            hashes |-> [scripts |-> {"sha256-a"}, styles |-> {}]],
                           [page |-> <<"a", "/", "b", ".", "h", "t", "m", "l">>,
                            hashes |-> [scripts |-> {"sha256-b"}, styles |-> {"sha256-c"}]] >>
    /\ Len(patch.entries) = 3
    /\ patch.entries[1].path = <<"/", "a", "/">>
    /\ patch.entries[1].entries[1].value =
          <<"script-src", " ", "'self'", " ", "'sha256-a'", ";", " ", "style-src", " ", "'none'">>
    /\ patch.entries[3].path = <<"/", "a", "/">> \o IndexHtml
    /\ patch.entries[3].entries[1].value =
          <<"script-src", " ", "'self'", " ", "'sha256-a'", " ", "'sha256-b'", ";", " ",
            "style-src", " ", "'none'">>

\* a page whose name continues a directory's with a character below ','
\* is placed before the directory
C16_NotAscending ==
    /\ Built
    /\ Len(patch.entries) = 3
    /\ patch.entries[1].path = <<"/", "a", "/", "+", ".", "h", "t", "m", "l">>
    /\ patch.entries[2].path = <<"/", "a", "/">>
    /\ patch.entries[3].path = <<"/", "a", "/">> \o IndexHtml

\* one block per page and per directory, whatever the options
BlockPerPage == Built => OneBlockPerPage

\* when the options define no cspDirectives object every page starts from
\* an empty one and the directory block equals the index.html block
FreshDirectivesSameBlocks == (Built /\ ~cspOpts.defined) => DirectoryBlockSameAsIndex

(***************************************************************************)
(* C17: rewriting is idempotent                                            *)
(***************************************************************************)
\* the middleware run again on its own output, with the same table
SecondDynamicPass == updateDynamicPageSriHashes(result.updatedContent, globalHashes, sri)

\* the build's scan run again on the page it wrote, with the collection it left
SecondStaticPass == updateStaticPageSriHashes(page, result.updatedContent, h, sri)

\* slot i of the scanned document was given an integrity attribute by the scan
RewrittenAt(i) ==
    /\ i \in 1..Len(content)
    /\ content[i] # Removed
    /\ result.updatedContent[i] # content[i]
    /\ result.updatedContent[i] # Removed
    /\ extractIntegrityHash(result.updatedContent[i].attrs) # Undefined

C17_WitnessDynamic ==
    /\ DynamicDone
    /\ \E i, j \in 1..Len(content) :
          /\ RewrittenAt(i) /\ RewrittenAt(j)
          /\ srcMatch(content[i].attrs, {"src", "href"}).matched
          /\ content[j].content # ""
    /\ SecondDynamicPass.updatedContent = result.updatedContent
    /\ SecondDynamicPass.pageHashes = result.pageHashes

(***************************************************************************)
(* C18: the per-resource cache of the static build                         *)
(***************************************************************************)
\* a page of the build has been scanned, successfully or not
PageScanned == mode = "static" /\ pc \in {"done", "failed"} /\ page # ""

\* the processor whose regex matches the element
ProcessorOf(el) == CHOOSE P \in Range(regexProcessors) : P.tag = el.tag

\* the element is one the scan resolves: it names a resource, carries no
\* integrity attribute and no content, and a link is a stylesheet
Resolvable(el) ==
    /\ el # Removed
    /\ el.content = ""
    /\ el.attrs # <<>>
    /\ ~(ProcessorOf(el).attrsRegex /\ ~relStylesheetRegex(el.attrs))
    /\ extractIntegrityHash(el.attrs) = Undefined
    /\ LET src == srcMatch(el.attrs, ProcessorOf(el).srcNames).src
       IN  urlLikeRegex(src) \/ startsWithSlash(src)

Locator(el) ==
    [t2 |-> ProcessorOf(el).t2, src |-> srcMatch(el.attrs, ProcessorOf(el).srcNames).src]

\* the elements of the page that bring their own integrity value for a locator
GivenFor(loc) ==
    {i \in 1..Len(content) :
        /\ content[i] # Removed
        /\ content[i].attrs # <<>>
        /\ extractIntegrityHash(content[i].attrs) # Undefined
        /\ Locator(content[i]) = loc}

ReadsOf(loc) == {k \in 1..Len(result.reads) : result.reads[k] = loc}

CachedBefore(loc) == loc.src \in DOMAIN result.hBefore.perResourceSriHashes[loc.t2]

\* C18: in a static build a locator that misses the per-resource cache is read
\* or fetched once and cached; a locator already cached, by this page or by an
\* earlier step of the build, is not read again and its references get the
\* cached hash.
C18_ReadOnceThenCached ==
    PageScanned =>
        /\ \A k \in 1..Len(result.reads) :
              /\ Cardinality(ReadsOf(result.reads[k])) = 1
              /\ ~CachedBefore(result.reads[k])
              /\ pc = "done" =>
                    result.reads[k].src \in DOMAIN h.perResourceSriHashes[result.reads[k].t2]
        /\ \A i \in 1..Len(content) :
              Resolvable(content[i]) /\ pc = "done" =>
                 LET loc == Locator(content[i])
                 IN  /\ ~CachedBefore(loc) /\ GivenFor(loc) = {} =>
                            /\ Cardinality(ReadsOf(loc)) = 1
                            /\ <<i, loc.t2, h.perResourceSriHashes[loc.t2][loc.src]>>
                                  \in result.contrib
                     /\ CachedBefore(loc) /\ GivenFor(loc) = {} =>
                            /\ ReadsOf(loc) = {}
                            /\ <<i, loc.t2, result.hBefore.perResourceSriHashes[loc.t2][loc.src]>>
                                  \in result.contrib

\* one page names the same uncached locator twice: one fetch, both elements hashed
C18_Witness ==
    /\ PageScanned /\ pc = "done"
    /\ Len(content) = 2
    /\ content[1] = content[2]
    /\ Resolvable(content[1])
    /\ ~CachedBefore(Locator(content[1]))
    /\ Cardinality(ReadsOf(Locator(content[1]))) = 1
    /\ \A i \in 1..2 : extractIntegrityHash(result.updatedContent[i].attrs) = "sha256-rx"

\* a later page names a locator that an earlier page fetched: no fetch
C18_WitnessLaterPage ==
    /\ PageScanned /\ pc = "done"
    /\ pagesDone = 2
    /\ \E i \in 1..Len(content) :
          /\ Resolvable(content[i])
          /\ Locator(content[i]) = [t2 |-> "scripts", src |-> XoEvil]
          /\ MapGet(result.hBefore.perResourceSriHashes.scripts, XoEvil) = "sha256-rx"
          /\ result.reads = <<>>
          /\ extractIntegrityHash(result.updatedContent[i].attrs) = "sha256-rx"

(***************************************************************************)
(* C19: failed reads and fetches during the static build                   *)
(***************************************************************************)
\* the read or fetch of the locator rejects
Rejects(loc) ==
    IF urlLikeRegex(loc.src) THEN loc.src \notin DOMAIN RemoteContent
    ELSE loc.src \notin DOMAIN DistFiles

\* the read or fetch of the locator does not yield the resource's content
Fails(loc) ==
    IF urlLikeRegex(loc.src) THEN ~ResponseOk(loc.src)
    ELSE loc.src \notin DOMAIN DistFiles

\* what becomes of a page scan that read loc without getting the resource:
\* the scan rejects, nothing is cached for loc, the page is not written
ScanRejectedFor(loc) ==
    /\ result.threw
    /\ pc = "failed"
    /\ ~result.wrote
    /\ loc.src \notin DOMAIN h.perResourceSriHashes[loc.t2]

\* C19: if a read or fetch of the static build does not yield the resource's
\* content, the scan rejects, no hash for the resource enters the hash
\* collection, and the page is not written back with an integrity for it.
C19_FailedReadRejects ==
    /\ PageScanned =>
          \A k \in 1..Len(result.reads) :
              Fails(result.reads[k]) => ScanRejectedFor(result.reads[k])
    /\ mode = "static" /\ pagesDone = 0 =>
          \A t2 \in {"scripts", "styles"} :
              \A src \in DOMAIN h.perResourceSriHashes[t2] :
                  ~Fails([t2 |-> t2, src |-> src])

\* the same, for reads and fetches that reject
RejectedReadPropagates ==
    /\ PageScanned =>
          \A k \in 1..Len(result.reads) :
              Rejects(result.reads[k]) => ScanRejectedFor(result.reads[k])
    /\ mode = "static" /\ pagesDone = 0 =>
          \A t2 \in {"scripts", "styles"} :
              \A src \in DOMAIN h.perResourceSriHashes[t2] :
                  ~Rejects([t2 |-> t2, src |-> src])
    /\ mode = "static" /\ pc = "failed" /\ page # "" => result.threw /\ ~result.wrote

\* a page names a URL answered with 404: the error page is hashed, the page is
\* written with that hash
C19_ErrorPageHashed ==
    /\ PageScanned /\ pc = "done"
    /\ content = <<Elem("script", <<Attr("src", XoGone)>>, "")>>
    /\ result.reads = <<[t2 |-> "scripts", src |-> XoGone]>>
    /\ result.wrote
    /\ result.updatedContent =
          <<Elem("script", <<Attr("src", XoGone), Attr("integrity", <<"sha256-nf">>),
                             Attr("crossorigin", <<"anonymous">>)>>, "")>>
    /\ "sha256-nf" \in h.extScriptHashes

\* a page names an unreachable URL after an element that was hashed: the scan
\* rejects and the page is not written
RejectedFetchWitness ==
    /\ PageScanned /\ pc = "failed"
    /\ Len(content) = 2
    /\ content[2] = Elem("script", <<Attr("src", XoDown)>>, "")
    /\ result.reads[Len(result.reads)] = [t2 |-> "scripts", src |-> XoDown]
    /\ ~result.wrote

(***************************************************************************)
(* C20: the hash collection only grows                                     *)
(***************************************************************************)
HashSetNames ==
    {"inlineScriptHashes", "inlineStyleHashes", "extScriptHashes", "extStyleHashes"}

\* from collection a to collection b no hash left a set
SetsGrow(a, b) ==
    /\ \A n \in HashSetNames : a[n] \subseteq b[n]
    /\ \A pg \in DOMAIN a.perPageSriHashes :
          /\ pg \in DOMAIN b.perPageSriHashes
          /\ \A t2 \in {"scripts", "styles"} :
                a.perPageSriHashes[pg][t2] \subseteq b.perPageSriHashes[pg][t2]

\* from a to b no locator left the per-resource cache
LocatorsKept(a, b) ==
    \A t2 \in {"scripts", "styles"} :
        DOMAIN a.perResourceSriHashes[t2] \subseteq DOMAIN b.perResourceSriHashes[t2]

\* from a to b no cached locator changed its hash
HashesKept(a, b) ==
    \A t2 \in {"scripts", "styles"} :
        \A src \in DOMAIN a.perResourceSriHashes[t2] \cap DOMAIN b.perResourceSriHashes[t2] :
            b.perResourceSriHashes[t2][src] = a.perResourceSriHashes[t2][src]

\* C20: during a static build hashes are only added to the sets of the hash
\* collection, and a locator that perResourceSriHashes maps to a hash keeps
\* being mapped to that hash by every later step of the build.
C20_AppendOnly ==
    [][mode = "static" => SetsGrow(h, h') /\ LocatorsKept(h, h') /\ HashesKept(h, h')]_vars

\* the part that holds: nothing is ever removed
NothingRemoved ==
    [][mode = "static" => SetsGrow(h, h') /\ LocatorsKept(h, h')]_vars

\* the allow list seeded the hash of the fetched script; a page whose element
\* names the same URL with another integrity value replaced it
C20_CacheEntryReplaced ==
    /\ PageScanned /\ pc = "done"
    /\ content =
          <<Elem("script", <<Attr("src", XoAllowed), Attr("integrity", <<"sha256-other">>)>>, "")>>
    /\ MapGet(result.hBefore.perResourceSriHashes.scripts, XoAllowed) = "sha256-ra"
    /\ MapGet(h.perResourceSriHashes.scripts, XoAllowed) = "sha256-other"

\* every change of a cached hash comes from an element carrying that value
ReplacedOnlyByGivenIntegrity ==
    PageScanned =>
        \A t2 \in {"scripts", "styles"} :
            \A src \in DOMAIN result.hBefore.perResourceSriHashes[t2] :
                h.perResourceSriHashes[t2][src] # result.hBefore.perResourceSriHashes[t2][src]
                    => \E i \in GivenFor([t2 |-> t2, src |-> src]) :
                          extractIntegrityHash(content[i].attrs) = h.perResourceSriHashes[t2][src]

(***************************************************************************)
(* C21, C22: persistence of the hashes module                              *)
(***************************************************************************)
Persisting == mode = "module"

\* the (type, locator, hash) triples of a collection or of a module
ResourceTriples(x) ==
    {<<"scripts", x.perResourceSriHashes.scripts[i].k, x.perResourceSriHashes.scripts[i].v>> :
        i \in 1..Len(x.perResourceSriHashes.scripts)}
    \cup
    {<<"styles", x.perResourceSriHashes.styles[i].k, x.perResourceSriHashes.styles[i].v>> :
        i \in 1..Len(x.perResourceSriHashes.styles)}

\* a collection or module as a structure without order
Structure(x) ==
    [inlineScriptHashes |-> Range(x.inlineScriptHashes),
     inlineStyleHashes |-> Range(x.inlineStyleHashes),
     extScriptHashes |-> Range(x.extScriptHashes),
     extStyleHashes |-> Range(x.extStyleHashes),
     perPageSriHashes |->
        {<<x.perPageSriHashes[i].k, Range(x.perPageSriHashes[i].v.scripts),
           Range(x.perPageSriHashes[i].v.styles)>> : i \in 1..Len(x.perPageSriHashes)},
     perResourceSriHashes |-> ResourceTriples(x)]

Calls == {persistLog.history[k] : k \in 1..Len(persistLog.history)}

\* the persisted version a call relates its collection to: the module as
\* the build loaded it
PreviouslyPersisted(call) == call.compared

\* the per-resource hashes of the call's collection differ from those of the
\* previously persisted version
ResourcesChanged(call) ==
    /\ call.fileBefore.exists
    /\ ResourceTriples(call.collection) # ResourceTriples(PreviouslyPersisted(call).exports)

C21_SecondBuildSilent ==
    /\ Persisting /\ pc = "done"
    /\ persistLog.sameInputs
    /\ Len(collected.perResourceSriHashes.scripts) = 2
    /\ collected.perResourceSriHashes.scripts # hashesModule.exports.perResourceSriHashes.scripts
    /\ persistLog.history[Len(persistLog.history)].enableMiddleware
    /\ \A call \in Calls : ~call.warned /\ ~call.wrote

\* the first build of a site: the provisional module is written without a
\* warning, and the scan's collection is compared with it
C21_FirstBuildWarns ==
    /\ Persisting /\ pc = "done"
    /\ persistLog.process = 1
    /\ Len(persistLog.history) = 2
    /\ ~persistLog.history[1].warned
    /\ persistLog.history[2].compared = persistLog.history[2].fileBefore
    /\ persistLog.history[2].warned

\* the module a build loaded is not the file any more once the build has
\* written a provisional module over it: the call that follows warns although
\* it is given the per-resource hashes that the file holds
WarnedAboutPersistedHashes ==
    /\ Persisting
    /\ Len(persistLog.history) = 2
    /\ persistLog.history[1].wrote
    /\ persistLog.history[2].compared # persistLog.history[2].fileBefore
    /\ ResourceTriples(persistLog.history[2].collection) =
          ResourceTriples(persistLog.history[2].fileBefore.exports)
    /\ persistLog.history[2].warned

\* the first call of a process sees the file as it is
FirstCallWarnsIffChanged ==
    Persisting /\ persistLog.history # <<>> =>
        LET call == persistLog.history[1]
        IN  /\ call.compared = call.fileBefore
            /\ call.wrote <=>
                  \/ ~call.fileBefore.exists
                  \/ Structure(call.collection) # Structure(call.fileBefore.exports)

\* when a build ends, the file holds the collection of the scan
FileHoldsCollection ==
    (Persisting /\ pc = "done") =>
        /\ hashesModule.exists
        /\ Structure(hashesModule.exports) = Structure(collected)

\* C22: a call writes only if no module was persisted or the persisted one
\* differs as a structure from the collection; of two calls in succession
\* with the same collection the second does not write; a rebuild over the
\* same members in another insertion order does not write.
C22_WritesOnlyWhenDifferent ==
    Persisting =>
        /\ \A call \in Calls :
              call.wrote =>
                 \/ ~call.fileBefore.exists
                 \/ Structure(call.collection) # Structure(call.fileBefore.exports)
        /\ Len(persistLog.history) = 2
              /\ persistLog.history[1].collection = persistLog.history[2].collection
              => ~persistLog.history[2].wrote
        /\ persistLog.sameInputs => \A call \in Calls : ~call.wrote

\* two calls in succession with one collection, two writes
C22_WroteTwice ==
    /\ Persisting
    /\ Len(persistLog.history) = 2
    /\ persistLog.history[1].collection = persistLog.history[2].collection
    /\ persistLog.history[1].wrote
    /\ persistLog.history[2].wrote
    /\ persistLog.history[2].fileBefore = hashesModule

\* a rebuild that found the members in the opposite order wrote nothing
ReorderedRebuildSilent ==
    /\ Persisting
    /\ persistLog.sameInputs
    /\ persistLog.history # <<>>
    /\ Len(collected.perResourceSriHashes.scripts) = 2
    /\ collected.perResourceSriHashes.scripts # hashesModule.exports.perResourceSriHashes.scripts
    /\ ~persistLog.history[1].wrote

\* where no module was persisted when the process started, two calls in
\* succession with one collection write once
WritesOnceFromScratch ==
    Persisting /\ Len(persistLog.history) = 2
        /\ ~persistLog.history[1].fileBefore.exists
        /\ persistLog.history[1].collection = persistLog.history[2].collection
        => persistLog.history[1].wrote /\ ~persistLog.history[2].wrote

(***************************************************************************)
(* C23 - C25: the static header builders                                   *)
(***************************************************************************)
VercelBuilt == mode = "vercel" /\ pc \in {"built", "merged"}
VercelMerged == mode = "vercel" /\ pc = "merged"

\* C23: the merged routes are all routes of the patch in their order, then
\* all routes of the base in theirs; version and every other field are the
\* base's.
C23_PatchRoutesFirst ==
    VercelMerged =>
        /\ DOMAIN vercelMerged = DOMAIN vercelBase \cup {"routes"}
        /\ vercelMerged.routes = routesOf(vercelPatch) \o routesOf(vercelBase)
        /\ \A f \in DOMAIN vercelBase \ {"routes"} : vercelMerged[f] = vercelBase[f]

\* a base route stands before the routes built for the pages
C23_BaseRouteFirst ==
    /\ VercelMerged
    /\ Len(routesOf(vercelBase)) = 1
    /\ Len(routesOf(vercelPatch)) > 0
    /\ vercelMerged.routes[1] = vercelBase.routes[1]
    /\ vercelMerged.routes[2] = vercelPatch.routes[1]

\* what the code does: the same with the routes of the base first
MergedBaseRoutesFirst ==
    VercelMerged =>
        /\ DOMAIN vercelMerged = DOMAIN vercelBase \cup {"routes"}
        /\ vercelMerged.routes = routesOf(vercelBase) \o routesOf(vercelPatch)
        /\ \A f \in DOMAIN vercelBase \ {"routes"} : vercelMerged[f] = vercelBase[f]

\* C24: every route that buildVercelConfig generates has continue: true.
C24_RoutesContinue ==
    VercelBuilt =>
        \A k \in 1..Len(vercelPatch.routes) :
            /\ "continue" \in DOMAIN vercelPatch.routes[k]
            /\ vercelPatch.routes[k]["continue"] = TRUE

\* a generated route has a src and headers and nothing else
C24_RouteWithoutContinue ==
    /\ VercelBuilt
    /\ Len(vercelPatch.routes) > 0
    /\ \A k \in 1..Len(vercelPatch.routes) :
          DOMAIN vercelPatch.routes[k] = {"src", "headers"}

\* every page has its route, an index.html page one more when the trailing
\* slash policy is 'never' or 'always', all with version 3
RoutePerPage ==
    (VercelBuilt /\ cspOpts.enabled) =>
        /\ vercelPatch.version = 3
        /\ Len(vercelPatch.routes) =
              Len(resourceHashes)
              + (IF buildCall.trailingSlash = "ignore" THEN 0
                 ELSE Cardinality({k \in 1..Len(resourceHashes) :
                                      isIndexPage(resourceHashes[k].page)}))
        /\ \A k \in 1..Len(resourceHashes) :
              \E j \in 1..Len(vercelPatch.routes) :
                  vercelPatch.routes[j].src = <<"/">> \o resourceHashes[k].page

\* the header value of a page built from the directives as configured and
\* the hashes of that page alone
IsolatedHeader(opts, hashes) ==
    vercelHeaders([page |-> <<>>, hashes |-> hashes], opts).headers["content-security-policy"]

\* the pages in the order of their routes or blocks
HeaderItems ==
    IF mode = "vercel"
    THEN DefaultSort(vercelPagesToIterate(resourceHashes,
                                          indexSlashOffset(buildCall.trailingSlash)), <<>>)
    ELSE DefaultSort(pagesToIterate(resourceHashes), <<>>)

\* the header values built, in the order of their routes or blocks
HeaderValues ==
    IF mode = "vercel"
    THEN [k \in 1..Len(vercelPatch.routes) |->
             vercelPatch.routes[k].headers["content-security-policy"]]
    ELSE [k \in 1..Len(patch.entries) |-> patch.entries[k].entries[1].value]

HeadersBuilt ==
    /\ mode \in {"build", "vercel"}
    /\ pc \in {"built", "merged"}
    /\ buildCall.optsBefore.enabled

\* C25: in both header builders the header of every page is the one its own
\* hashes give with the configured directives, and the configured directives
\* are after the call what they were before it.
C25_PagesIsolated ==
    HeadersBuilt =>
        /\ Len(HeaderValues) = Len(HeaderItems)
        /\ \A k \in 1..Len(HeaderValues) :
              HeaderValues[k] = IsolatedHeader(buildCall.optsBefore, HeaderItems[k].hashes)
        /\ cspOpts = buildCall.optsBefore

\* Vercel: the route of a page whose only script hash is sha256-b, built
\* after a page with sha256-a, allows sha256-a too, and the configured
\* directives hold both after the call
C25_VercelHashLeaks ==
    /\ mode = "vercel" /\ pc = "built"
    /\ buildCall.optsBefore.defined
    /\ buildCall.optsBefore.cspDirectives = NoDirectives
    /\ Len(HeaderItems) = 2
    /\ HeaderItems[1].hashes.scripts = {"sha256-a"}
    /\ HeaderItems[2].hashes.scripts = {"sha256-b"}
    /\ "'sha256-a'" \in Range(HeaderValues[2])
    /\ "'sha256-b'" \in Range(HeaderValues[2])
    /\ cspOpts.cspDirectives # NoDirectives

\* Netlify: a page with a script, built after a page without any, keeps the
\* 'none' of that page next to its hash
C25_NetlifyNoneLeftOver ==
    /\ mode = "build" /\ pc = "built"
    /\ buildCall.optsBefore.defined
    /\ \E k \in 2..Len(HeaderItems) :
          /\ HeaderItems[k - 1].hashes.scripts = {}
          /\ HeaderItems[k].hashes.scripts # {}
          /\ HeaderValues[k] # IsolatedHeader(buildCall.optsBefore, HeaderItems[k].hashes)

\* without a configured cspDirectives object every page gets a new object:
\* the pages are isolated and the options untouched
IsolatedWithoutDirectives ==
    (HeadersBuilt /\ ~buildCall.optsBefore.defined) =>
        /\ \A k \in 1..Len(HeaderValues) :
              HeaderValues[k] = IsolatedHeader(buildCall.optsBefore, HeaderItems[k].hashes)
        /\ cspOpts = buildCall.optsBefore

(***************************************************************************)
(* C26: independence of the requests                                       *)
(***************************************************************************)
Served == mode = "csp" /\ requests > 0

\* C26: the header of every response is the one patchHeaders gives for the
\* response's page hashes, its existing headers and the options as given at
\* startup, whatever requests were served before, and the configured
\* cspDirectives are what they were at startup.
C26_RequestsIndependent ==
    Served =>
        /\ patched.headers = patchHeaders(plainHeaders, pageHashes, startupOpts).headers
        /\ cspOpts = startupOpts

\* the second response, of a page without the script of the first one, allows
\* the hash of the first response's script
C26_EarlierHashInLaterHeader ==
    /\ Served /\ requests = 2
    /\ startupOpts.defined /\ startupOpts.cspDirectives = NoDirectives
    /\ ~plainHeaders.has
    /\ pageHashes = [scripts |-> {"sha256-b"}, styles |-> {}]
    /\ "'sha256-a'" \in Range(patched.headers.csp)
    /\ "'sha256-a'" \in Range(cspOpts.cspDirectives["script-src"])

\* the first response is served with the options as given
FirstRequestAsConfigured ==
    (Served /\ requests = 1) =>
        patched.headers = patchHeaders(plainHeaders, pageHashes, startupOpts).headers

\* without a configured cspDirectives object the requests are independent
IndependentWithoutDirectives ==
    (Served /\ ~startupOpts.defined) =>
        /\ patched.headers = patchHeaders(plainHeaders, pageHashes, startupOpts).headers
        /\ cspOpts = startupOpts

\* the options change only in a request without an existing header
OptsChangeOnlyWithoutHeader ==
    (Served /\ plainHeaders.has) => cspOpts.cspDirectives = patched.optsBefore

(***************************************************************************)
(* C27 - C30: what the scan puts into the hash set and the document        *)
(***************************************************************************)
\* the element of slot i is still in the returned document, as it was or
\* rewritten
KeptAt(i) == result.updatedContent[i] # Removed

\* hash is what the global table holds for the source of the element
TableHashOf(el, hash) ==
    /\ SourceOf(el) # <<>>
    /\ hash # ""
    /\ MapGet(globalHashes[TypeOf(el)], SourceOf(el)) = hash

\* hash is what generateSRIHash gives for the content of the inline element
ComputedHashOf(el, hash) ==
    /\ SourceOf(el) = <<>>
    /\ el.tag \in {"script", "style"}
    /\ hash = generateSRIHash(el.content)

\* C27: in dynamic mode every hash of the returned page hash set was added
\* for an element that is kept, and is either the table's hash for the
\* element's source or the hash of the element's inline content.
C27_HashesFromTableOrContent ==
    DynamicDone =>
        /\ \A t2 \in {"scripts", "styles"} :
              result.pageHashes[t2] = {c[3] : c \in {d \in result.contrib : d[2] = t2}}
        /\ \A c \in result.contrib :
              /\ KeptAt(c[1])
              /\ TableHashOf(content[c[1]], c[3]) \/ ComputedHashOf(content[c[1]], c[3])

\* an inline script that claims the integrity value of some other text puts
\* that value into the page's script hashes, and stays as it is
C27_ClaimedHashEntersSet ==
    /\ DynamicDone
    /\ sri.allowInlineScripts = "all"
    /\ \E i \in Slots :
          /\ content[i] = Elem("script", IntegrityAttrs("sha256-other"), "c")
          /\ result.updatedContent[i] = content[i]
          /\ "sha256-other" \in result.pageHashes.scripts
          /\ generateSRIHash("c") \notin result.pageHashes.scripts

\* the same for the elements that bring no integrity attribute of their own
HashesOfPlainElementsChecked ==
    DynamicDone =>
        \A c \in result.contrib :
            /\ KeptAt(c[1])
            /\ GivenIntegrity(content[c[1]]) = Undefined =>
                  TableHashOf(content[c[1]], c[3]) \/ ComputedHashOf(content[c[1]], c[3])
            /\ SourceOf(content[c[1]]) # <<>> => TableHashOf(content[c[1]], c[3])

\* a script, style or stylesheet link whose source is neither a local path
\* nor a key of the global table
C28_Case(el) ==
    /\ IsScannedElem(el)
    /\ SourceOf(el) # <<>>
    /\ ~IsLocalPath(SourceOf(el))
    /\ SourceOf(el) \notin DOMAIN globalHashes[TypeOf(el)]

\* C28: in dynamic mode no element whose source is neither a local path nor
\* a key of the global table remains in the returned document.
C28_UnknownSourcesRemoved ==
    DynamicDone =>
        \A i \in Slots : C28_Case(content[i]) => result.updatedContent[i] = Removed

\* a script with a relative source and one with a data: URL are returned as
\* they came, each with a warning
C28_UnknownSchemeStays ==
    /\ DynamicDone
    /\ \E i, j \in Slots :
          /\ content[i] = Elem("script", <<Attr("src", RelativeSrc)>>, "")
          /\ content[j] = Elem("script", <<Attr("src", DataUrl)>>, "")
          /\ result.updatedContent[i] = content[i]
          /\ result.updatedContent[j] = content[j]
          /\ WarningsFor(i) = 1 /\ WarningsFor(j) = 1
          /\ HashesFrom(i) = {} /\ HashesFrom(j) = {}

\* what is removed: the element whose unknown source is URL-like, and the
\* one that comes with an integrity value or with content
UnknownUrlsRemoved ==
    DynamicDone =>
        \A i \in Slots :
            (/\ C28_Case(content[i])
             /\ \/ urlLikeRegex(SourceOf(content[i]))
                \/ GivenIntegrity(content[i]) # Undefined
                \/ content[i].content # "")
            => result.updatedContent[i] = Removed

\* how many crossorigin="anonymous" attributes the element has
CrossoriginCount(el) ==
    Cardinality({k \in 1..Len(el.attrs) : el.attrs[k] = Attr("crossorigin", <<"anonymous">>)})

\* slot i held an element without integrity attribute and holds it with one
HashedAt(i) ==
    /\ i \in Slots
    /\ IsScannedElem(content[i])
    /\ GivenIntegrity(content[i]) = Undefined
    /\ result.updatedContent[i] # Removed
    /\ result.updatedContent[i] # content[i]
    /\ GivenIntegrity(result.updatedContent[i]) # Undefined

\* C29: in static mode every rewritten element has exactly one
\* crossorigin="anonymous" when its source is a cross-origin URL, whether the
\* hash was fetched or came from the cache, and otherwise as many as it had.
C29_CrossoriginOnCrossOrigin ==
    StaticDone =>
        \A i \in Slots :
            HashedAt(i) =>
                CrossoriginCount(result.updatedContent[i]) =
                    IF urlLikeRegex(SourceOf(content[i])) THEN 1
                    ELSE CrossoriginCount(content[i])

\* a script of an allow-listed URL, whose hash the allow-list scan cached,
\* is given its integrity attribute and no crossorigin attribute
C29_CachedHashWithoutCrossorigin ==
    /\ StaticDone
    /\ XoAllowed \in DOMAIN result.hBefore.perResourceSriHashes.scripts
    /\ \E i \in Slots :
          /\ content[i] = Elem("script", <<Attr("src", XoAllowed)>>, "")
          /\ result.updatedContent[i] =
                Elem("script", <<Attr("src", XoAllowed), Attr("integrity", <<"sha256-ra">>)>>, "")

\* a fetched cross-origin element gets the attribute, unless it has it; a
\* local or inline element gets none; none is ever duplicated
CrossoriginWhenFetched ==
    StaticDone =>
        \A i \in Slots :
            HashedAt(i) =>
                /\ CrossoriginCount(result.updatedContent[i]) <= 1
                /\ ~urlLikeRegex(SourceOf(content[i])) =>
                      CrossoriginCount(result.updatedContent[i]) = CrossoriginCount(content[i])
                /\ CrossoriginCount(result.updatedContent[i]) >= CrossoriginCount(content[i])
                /\ (/\ urlLikeRegex(SourceOf(content[i]))
                    /\ SourceOf(content[i]) \notin
                          DOMAIN result.hBefore.perResourceSriHashes[TypeOf(content[i])]
                    /\ \A j \in Slots \ {i} :
                          IsScannedElem(content[j]) =>
                              \/ SourceOf(content[j]) # SourceOf(content[i])
                              \/ TypeOf(content[j]) # TypeOf(content[i]))
                   => CrossoriginCount(result.updatedContent[i]) = 1

\* an inline script or style without integrity attribute
IsInline(el) ==
    /\ el.tag \in {"script", "style"}
    /\ SourceOf(el) = <<>>
    /\ GivenIntegrity(el) = Undefined

\* C30: every inline element that is hashed and kept has in the returned
\* document the content it had in the input and an integrity value that is
\* the hash of that content; this for every occurrence of an element text.
C30_InlineContentPreserved ==
    (DynamicDone \/ StaticDone) =>
        \A i \in Slots :
            (/\ IsInline(content[i])
             /\ HashesFrom(i) # {}
             /\ result.updatedContent[i] # Removed)
            => /\ result.updatedContent[i].content = content[i].content
               /\ GivenIntegrity(result.updatedContent[i]) =
                     generateSRIHash(result.updatedContent[i].content)

\* the script $$ is returned as the script $ with the hash of $$
C30_DollarCollapsed ==
    /\ DynamicDone \/ StaticDone
    /\ \E i \in Slots :
          /\ content[i] = Elem("script", <<>>, "$$")
          /\ result.updatedContent[i] =
                Elem("script", <<Attr("integrity", <<generateSRIHash("$$")>>)>>, "$")
          /\ generateSRIHash("$$") \in result.pageHashes.scripts

\* the hash is the one of the input's content, and every occurrence of a
\* hashed inline element carries it; a content without `$` is returned as
\* it came
InlineHashOfInput ==
    (DynamicDone \/ StaticDone) =>
        \A i \in Slots :
            (/\ IsInline(content[i])
             /\ HashesFrom(i) # {})
            => /\ result.updatedContent[i] # Removed
               /\ GivenIntegrity(result.updatedContent[i]) = generateSRIHash(content[i].content)
               /\ content[i].content # "$$" =>
                     result.updatedContent[i].content = content[i].content

\* two occurrences of one inline element text, both with the attribute
SameTextTwiceBothHashed ==
    /\ DynamicDone \/ StaticDone
    /\ Len(content) = 2
    /\ content[1] = Elem("style", <<>>, "c")
    /\ content[2] = content[1]
    /\ result.updatedContent[1] = result.updatedContent[2]
    /\ GivenIntegrity(result.updatedContent[2]) = generateSRIHash("c")

====
